---- MODULE Spec2Model ----
(***************************************************************************)
(* Model of the cover classification engine of fvtt-token-cover:          *)
(* the CoverType catalog with its lazily rebuilt priority ordering,       *)
(* coverTypesForToken / minimumCoverFromAttackers with the dnd5e and pf2e *)
(* variants, the reconciliation of cover icons on a token (addToToken,    *)
(* removeFromToken, replaceCoverTypes), the cover types of a CoverEffect, *)
(* the sheet-refresh queue, WallPoints3d.combineTerrainWalls, the         *)
(* PIXI.Polygon utilities (viewablePoints, iterateEdges, convexhull),     *)
(* the cover effects that are locally on an actor, the                    *)
(* preCreateActiveEffect hook and the IgnoresCover accessors.             *)
(*                                                                         *)
(* Percentages are scaled to integers 0..100.  A priority is modelled as  *)
(* a sequence: << >> is null, <<n>> is the number n.                      *)
(***************************************************************************)
EXTENDS Integers, Sequences, FiniteSets, TLC

VARIABLES
  coverObjectsMap,      \* CoverType.coverObjectsMap: ids in Map insertion order
  document,             \* document of the CoverType object with a given id
  storedIds,            \* keys of the stored settings object (storedCoverTypes)
  settingsInFlight,     \* Settings.set promises that have not resolved yet
  coverTypesModified,   \* CoverType.#coverTypesModified
  coverTypesOrdered,    \* CoverType.#coverTypesOrdered
  coverTypesUnordered,  \* CoverType.#coverTypesUnordered
  effects,              \* token.document.effects: sequence of icons
  flags,                \* coverEffect.document.flags[MODULE_ID]
  sheet,                \* actor.sheet._state
  renderQueue,          \* renderQueue: the async functions waiting their turn
  task,                 \* the rerenderActorSheet call in progress
  history,              \* refreshes requested, started and finished so far
  localEffects,         \* the cover effects that are locally on the actor
  trackedDocumentIds,   \* CoverEffect._documentIds: the document ids it links
  prepared,             \* calls of actor.prepareData() so far
  actorEffects,         \* actor.effects: the cover-effect id flag of each
  pendingEffects,       \* creations the hook let pass, not yet on the actor
  actorFlags,           \* actor.flags[MODULE_ID]: the ignores-cover flags
  tokenFlags,           \* token.flags[MODULE_ID]: the ignores-cover flags
  thisPoints,           \* polygon.points: the flat array of the polygon
  isClockwiseCached,    \* polygon._isClockwise
  iterator,             \* the generator object in use and where it stands
  yielded,              \* what it yielded so far; replacements of points since
  ret                   \* the last call and what it returned

vars == <<coverObjectsMap, document, storedIds, settingsInFlight,
          coverTypesModified, coverTypesOrdered, coverTypesUnordered,
          effects, flags, sheet, renderQueue, task, history, localEffects,
          trackedDocumentIds, prepared, actorEffects, pendingEffects, actorFlags,
          tokenFlags, thisPoints, isClockwiseCached, iterator, yielded, ret>>

catalogVars == <<coverObjectsMap, document, storedIds, settingsInFlight>>
orderVars == <<coverTypesModified, coverTypesOrdered, coverTypesUnordered>>
effectVars == <<flags>>
queueVars == <<sheet, renderQueue, task, history>>
actorVars == <<localEffects, trackedDocumentIds, prepared, actorEffects,
               pendingEffects, actorFlags, tokenFlags>>
polygonVars == <<thisPoints, isClockwiseCached, iterator, yielded>>
extVars == <<effectVars, queueVars, actorVars, polygonVars>>

\* An effect document without flags of this module (<<f>> is the flags
\* object f); no sheet rendered, an empty queue and no refresh in progress.
NoModuleFlags == << >>
NoTask == [id |-> 0, pc |-> "idle", iter |-> 0]
NoHistory ==
  [enqueued |-> 0, started |-> << >>, finished |-> << >>, rendering |-> {},
   gaveUp |-> {}]

\* An actor and a token without cover effects and without flags of this
\* module (<< >> is a record without keys).
InitActor ==
  /\ localEffects = {}
  /\ trackedDocumentIds = {}
  /\ prepared = 0
  /\ actorEffects = << >>
  /\ pendingEffects = << >>
  /\ actorFlags = << >>
  /\ tokenFlags = << >>

\* No polygon, and no generator made: locals that are not assigned yet hold
\* the point (0, 0), and `value` is what the last next() gave, << >> for none.
NoPoint == [x |-> 0, y |-> 0]
NoIterator ==
  [kind |-> "none", close |-> FALSE, pc |-> "done", ln |-> 0, i |-> 0,
   firstA |-> NoPoint, A |-> NoPoint, B |-> NoPoint, value |-> << >>]
NothingYielded == [values |-> << >>, reversed |-> 0]

InitNoPolygon ==
  /\ thisPoints = << >>
  /\ isClockwiseCached = << >>
  /\ iterator = NoIterator
  /\ yielded = NothingYielded

InitExt ==
  /\ InitActor
  /\ InitNoPolygon
  /\ flags = NoModuleFlags
  /\ sheet = "NONE"
  /\ renderQueue = << >>
  /\ task = NoTask
  /\ history = NoHistory

(***************************************************************************)
(* Bounds                                                                  *)
(***************************************************************************)
MaxCatalogIds == 2      \* ids available to the catalog life-cycle specification
MaxInFlight == 1        \* settings writes that may be pending at once

CatalogIds == 1..MaxCatalogIds

NoPriority == << >>
CatalogPriorities == {NoPriority, <<-1>>, <<0>>, <<2>>}

(***************************************************************************)
(* Sequence helpers                                                        *)
(***************************************************************************)
Range(s) == {s[i] : i \in 1..Len(s)}

SelectOut(s, drop) == SelectSeq(s, LAMBDA e : e \notin drop)

IsInjective(s) == \A i, j \in 1..Len(s) : s[i] = s[j] => i = j

(***************************************************************************)
(* CoverTypeData                                                           *)
(***************************************************************************)
newCoverTypeData ==
  [priority |-> NoPriority, percentThreshold |-> 100, canOverlap |-> TRUE,
   icon |-> 0, includeWalls |-> FALSE, includeTokens |-> TRUE]

\* JavaScript truthiness of a priority: null and 0 are falsy.
Truthy(priority) == priority # NoPriority /\ priority[1] # 0

HasPriority(priority) == priority # NoPriority

\* foundry.utils.mergeObject(original, other): keys of other overwrite, and
\* keys the original does not have are inserted.
mergeObject(original, other) ==
  [k \in DOMAIN original \cup DOMAIN other |->
     IF k \in DOMAIN other THEN other[k] ELSE original[k]]

(***************************************************************************)
(* Dirty flag and derived lists                                            *)
(***************************************************************************)
coverTypesUpdated(modified) == modified \/ TRUE

\* _findStorageDocument: the flag is raised only when a stored document exists.
FindStorageDocumentFlag(modified, found) ==
  IF ~found THEN modified ELSE coverTypesUpdated(modified)

CreateStorageDocumentFlag(modified) == coverTypesUpdated(modified)

DeleteStorageDocumentFlagStale(modified) == modified

DeleteStorageDocumentFlag(modified) == coverTypesUpdated(modified)

UpdateFlag(modified) == coverTypesUpdated(modified)

\* Array.prototype.sort with (a, b) => b.priority - a.priority: stable, descending.
RECURSIVE SortDescending(_, _)
SortDescending(s, doc) ==
  IF s = << >> THEN << >>
  ELSE LET rest == SortDescending(Tail(s), doc)
           p == doc[Head(s)].priority[1]
           \* Head(s) goes before every element of strictly smaller priority
           \* and, being earlier in the input, before its equals.
           before == SelectSeq(rest, LAMBDA e : doc[e].priority[1] > p)
           after == SelectSeq(rest, LAMBDA e : doc[e].priority[1] <= p)
       IN before \o <<Head(s)>> \o after

UpdateCoverTypesOrderNoElse(map, doc, oldOrdered, oldUnordered) ==
  [ordered |-> SortDescending(SelectSeq(map, LAMBDA id : Truthy(doc[id].priority)), doc),
   unordered |-> map]

\* #updateCoverTypesOrder: both lists are emptied and refilled from the map.
UpdateCoverTypesOrder(map, doc, oldOrdered, oldUnordered) ==
  [ordered |-> SortDescending(SelectSeq(map, LAMBDA id : Truthy(doc[id].priority)), doc),
   unordered |-> SelectSeq(map, LAMBDA id : ~Truthy(doc[id].priority))]

\* The getters coverTypesOrdered / coverTypesUnordered: rebuild when dirty.
ListsAfterRead ==
  IF coverTypesModified
  THEN UpdateCoverTypesOrder(coverObjectsMap, document, coverTypesOrdered, coverTypesUnordered)
  ELSE [ordered |-> coverTypesOrdered, unordered |-> coverTypesUnordered]

ReadLists ==
  /\ coverTypesOrdered' = ListsAfterRead.ordered
  /\ coverTypesUnordered' = ListsAfterRead.unordered
  /\ coverTypesModified' = FALSE

(***************************************************************************)
(* Catalog life cycle                                                      *)
(***************************************************************************)
CatalogDocs == {mergeObject(newCoverTypeData, [priority |-> p]) : p \in CatalogPriorities}

CatalogConfigs == {[priority |-> p] : p \in CatalogPriorities}

\* new CoverType(id) followed by initialize(): the object enters the map and
\* takes its document from the stored settings or from the defaults.
AddCoverType(id, data) ==
  /\ id \notin Range(coverObjectsMap)
  /\ coverObjectsMap' = Append(coverObjectsMap, id)
  /\ IF id \in storedIds
     THEN /\ document' = document
          /\ coverTypesModified' = FindStorageDocumentFlag(coverTypesModified, TRUE)
     ELSE /\ document' = [document EXCEPT ![id] = data]
          /\ coverTypesModified' =
               CreateStorageDocumentFlag(FindStorageDocumentFlag(coverTypesModified, FALSE))
  /\ ret' = [op |-> "add", id |-> id]
  /\ UNCHANGED <<storedIds, settingsInFlight, coverTypesOrdered, coverTypesUnordered, effects, extVars>>

\* update(config) up to the Settings.set call.  The merge goes into
\* stored[id], and addStoredCoverObjectId then puts this.document in its
\* place: the merge reaches this.document when stored[id] is that very
\* object, and is lost when Settings.get handed out a copy or the id was not
\* stored.
Update(id, config) ==
  /\ id \in Range(coverObjectsMap)
  /\ settingsInFlight < MaxInFlight
  /\ coverTypesModified' = UpdateFlag(coverTypesModified)
  /\ \E sameObject \in (IF id \in storedIds THEN BOOLEAN ELSE {FALSE}) :
       document' = IF sameObject
                   THEN [document EXCEPT ![id] = mergeObject(@, config)]
                   ELSE document
  /\ storedIds' = storedIds \cup {id}
  /\ settingsInFlight' = settingsInFlight + 1
  /\ ret' = [op |-> "update", id |-> id]
  /\ UNCHANGED <<coverObjectsMap, coverTypesOrdered, coverTypesUnordered, effects, extVars>>

\* delete(): _deleteStorageDocument and the removal from the map.
DeleteCoverType(id) ==
  /\ id \in Range(coverObjectsMap)
  /\ settingsInFlight < MaxInFlight
  /\ coverTypesModified' = DeleteStorageDocumentFlag(coverTypesModified)
  /\ coverObjectsMap' = SelectOut(coverObjectsMap, {id})
  /\ storedIds' = storedIds \ {id}
  /\ settingsInFlight' = IF id \in storedIds THEN settingsInFlight + 1 ELSE settingsInFlight
  /\ ret' = [op |-> "delete", id |-> id]
  /\ UNCHANGED <<document, coverTypesOrdered, coverTypesUnordered, effects, extVars>>

\* CoverType.addStoredCoverObjectId(id, update) hands the stored object to
\* Settings.set: unless update is false and the id is stored already, and
\* unless the map has no CoverType of that id.
addStoredCoverObjectIdSets(id, update, map, stored) ==
  (update \/ id \notin stored) /\ id \in Range(map)

\* CoverType.addStoredCoverObjectId(id, update = false) called on its own:
\* stored[id] becomes the document of the CoverType.
AddStoredCoverObjectId(id, update) ==
  LET sets == addStoredCoverObjectIdSets(id, update, coverObjectsMap, storedIds)
  IN /\ sets => settingsInFlight < MaxInFlight
     /\ storedIds' = IF sets THEN storedIds \cup {id} ELSE storedIds
     /\ settingsInFlight' = IF sets THEN settingsInFlight + 1 ELSE settingsInFlight
     /\ ret' = [op |-> "addStoredCoverObjectId", id |-> id, set |-> sets]
     /\ UNCHANGED <<coverObjectsMap, document, orderVars, effects, extVars>>

\* CoverType.removeStoredCoverObjectId(id) called on its own.
RemoveStoredCoverObjectId(id) ==
  /\ id \in storedIds => settingsInFlight < MaxInFlight
  /\ storedIds' = storedIds \ {id}
  /\ settingsInFlight' = IF id \in storedIds THEN settingsInFlight + 1 ELSE settingsInFlight
  /\ ret' = [op |-> "removeStoredCoverObjectId", id |-> id, set |-> id \in storedIds]
  /\ UNCHANGED <<coverObjectsMap, document, orderVars, effects, extVars>>

\* CoverType.coverTypesUpdated() called on its own.
CoverTypesUpdated ==
  /\ coverTypesModified' = coverTypesUpdated(coverTypesModified)
  /\ ret' = [op |-> "coverTypesUpdated"]
  /\ UNCHANGED <<catalogVars, coverTypesOrdered, coverTypesUnordered, effects, extVars>>

\* A pending Settings.set resolves; the update or delete that awaited it completes.
SettingsSetResolves ==
  /\ settingsInFlight > 0
  /\ settingsInFlight' = settingsInFlight - 1
  /\ ret' = [op |-> "settled"]
  /\ UNCHANGED <<coverObjectsMap, document, storedIds, orderVars, effects, extVars>>

GetCoverTypesOrdered ==
  /\ ReadLists
  /\ ret' = [op |-> "coverTypesOrdered", rebuilt |-> coverTypesModified,
             inFlight |-> settingsInFlight]
  /\ UNCHANGED <<catalogVars, effects, extVars>>

GetCoverTypesUnordered ==
  /\ ReadLists
  /\ ret' = [op |-> "coverTypesUnordered", rebuilt |-> coverTypesModified,
             inFlight |-> settingsInFlight]
  /\ UNCHANGED <<catalogVars, effects, extVars>>

InitCatalog ==
  /\ coverObjectsMap = << >>
  /\ storedIds \in SUBSET CatalogIds
  /\ document \in [CatalogIds -> CatalogDocs]
  /\ \A id \in CatalogIds \ storedIds : document[id] = newCoverTypeData
  /\ settingsInFlight = 0
  /\ coverTypesModified = TRUE
  /\ coverTypesOrdered = << >>
  /\ coverTypesUnordered = << >>
  /\ effects = << >>
  /\ ret = [op |-> "init"]
  /\ InitExt

NextCatalog ==
  \/ \E id \in CatalogIds, data \in CatalogDocs : AddCoverType(id, data)
  \/ \E id \in CatalogIds, config \in CatalogConfigs : Update(id, config)
  \/ \E id \in CatalogIds : DeleteCoverType(id)
  \/ \E id \in CatalogIds, update \in BOOLEAN : AddStoredCoverObjectId(id, update)
  \/ \E id \in CatalogIds : RemoveStoredCoverObjectId(id)
  \/ CoverTypesUpdated
  \/ SettingsSetResolves
  \/ GetCoverTypesOrdered
  \/ GetCoverTypesUnordered

SpecCatalog == InitCatalog /\ [][NextCatalog]_vars

(***************************************************************************)
(* C1..C3: the derived lists                                               *)
(***************************************************************************)
IsRead == ret.op \in {"coverTypesOrdered", "coverTypesUnordered"}

\* C1: after any sequence of catalog mutations and reads, the lists a read
\* returns partition the catalog: every catalog entry is in exactly one of
\* the two lists exactly once, and the lists hold nothing else.
C1_ListsPartitionCatalog ==
  IsRead =>
    LET both == coverTypesOrdered \o coverTypesUnordered
    IN /\ Range(both) = Range(coverObjectsMap)
       /\ IsInjective(both)

C1_Witness ==
  /\ IsRead
  /\ ret.rebuilt
  /\ coverTypesOrdered # << >>
  /\ coverTypesUnordered # << >>
  /\ Len(coverTypesOrdered) + Len(coverTypesUnordered) = MaxCatalogIds

\* C2: the cache is read-after-write consistent: whenever the dirty flag is
\* clear, also while an update or delete is still awaiting its settings
\* write, the cached lists are what a rebuild from the current catalog gives,
\* so no read returns lists older than the last mutation.
C2_ReadAfterWrite ==
  ~coverTypesModified =>
    [ordered |-> coverTypesOrdered, unordered |-> coverTypesUnordered]
      = UpdateCoverTypesOrder(coverObjectsMap, document, << >>, << >>)

C2_Witness ==
  /\ IsRead
  /\ ret.inFlight > 0
  /\ ret.rebuilt
  /\ coverTypesOrdered # << >>

\* C3: after a rebuild coverTypesOrdered holds exactly the categories with a
\* non-null priority, in non-increasing priority order, and
\* coverTypesUnordered exactly those with a null priority; also for
\* priority 0 and negative priorities.
C3_OrderedIffHasPriority ==
  IsRead =>
    /\ \A id \in Range(coverObjectsMap) :
         /\ (id \in Range(coverTypesOrdered)) = HasPriority(document[id].priority)
         /\ (id \in Range(coverTypesUnordered)) = ~HasPriority(document[id].priority)
    /\ \A i, j \in 1..Len(coverTypesOrdered) :
         i < j => document[coverTypesOrdered[i]].priority[1]
                    >= document[coverTypesOrdered[j]].priority[1]

(***************************************************************************)
(* Cover of a target from attackers                                        *)
(***************************************************************************)
MaxCoverIds == 2        \* catalog size of the classification specification
MaxAttackers == 2       \* attackers in a group

CoverIds == 1..MaxCoverIds

CoverPriorities == {NoPriority, <<0>>, <<1>>, <<2>>}
CoverThresholds == {50, 75}
CoverPercents == {30, 50, 80}

FlagPairs == BOOLEAN \X BOOLEAN

\* An attacker is known by its coverCalculator.percentCover oracle: the
\* occluded share of the target for each {includeWalls, includeTokens}.
SimpleAttackers == {[f \in FlagPairs |-> p] : p \in CoverPercents}

\* A percentCover that asks for walls and tokens whatever the category says.
percentCoverOfEverything(doc, attacker) == attacker[<<TRUE, TRUE>>]

\* CoverType#percentCover
percentCover(doc, attacker) == attacker[<<doc.includeWalls, doc.includeTokens>>]

\* CoverType#coverTypeApplies
coverTypeApplies(doc, attacker) == percentCover(doc, attacker) >= doc.percentThreshold

\* `types` is a Set: it has a size but no length, so types.length is
\* undefined, which is falsy whatever the set holds.
TypesLengthTruthy(types) == FALSE

\* First loop of coverTypesForToken: the ordered list up to the first match.
RECURSIVE TestOrdered(_, _, _)
TestOrdered(ordered, doc, attacker) ==
  IF ordered = << >> THEN [types |-> << >>, tested |-> << >>]
  ELSE IF coverTypeApplies(doc[Head(ordered)], attacker)
       THEN [types |-> <<Head(ordered)>>, tested |-> <<Head(ordered)>>]
       ELSE LET r == TestOrdered(Tail(ordered), doc, attacker)
            IN [types |-> r.types, tested |-> <<Head(ordered)>> \o r.tested]

\* Second loop of coverTypesForToken: the list without priority.
RECURSIVE TestUnordered(_, _, _, _)
TestUnordered(unordered, doc, attacker, acc) ==
  IF unordered = << >> THEN acc
  ELSE LET type == Head(unordered)
           next ==
             IF ~doc[type].canOverlap /\ TypesLengthTruthy(acc.types) THEN acc
             ELSE [types |-> IF coverTypeApplies(doc[type], attacker)
                             THEN Append(acc.types, type) ELSE acc.types,
                   tested |-> Append(acc.tested, type)]
       IN TestUnordered(Tail(unordered), doc, attacker, next)

\* CoverType.coverTypesForToken on freshly read lists.
coverTypesForToken(lists, doc, attacker) ==
  TestUnordered(lists.unordered, doc, attacker, TestOrdered(lists.ordered, doc, attacker))

\* token.tokencover.coverTypesFromAttacker: the per-pair cover set.
coverTypesFromAttacker(lists, doc, attacker) == coverTypesForToken(lists, doc, attacker).types

\* The forEach of minimumCoverFromAttackers over one attacker's cover types.
RECURSIVE ForEachCoverType(_, _, _)
ForEachCoverType(coverTypes, doc, acc) ==
  IF coverTypes = << >> THEN acc
  ELSE LET ct == Head(coverTypes)
           next ==
             IF ~Truthy(doc[ct].priority)
             THEN [acc EXCEPT !.otherTypes = @ \cup {ct}]
             ELSE IF acc.minCoverType = << >>
                     \/ doc[acc.minCoverType[1]].priority[1] > doc[ct].priority[1]
                  THEN [acc EXCEPT !.minCoverType = <<ct>>]
                  ELSE acc
       IN ForEachCoverType(Tail(coverTypes), doc, next)

MinimumCoverStepDroppingOthers(state, coverTypes, doc) ==
  LET r == ForEachCoverType(coverTypes, doc,
                            [minCoverType |-> state.minCoverType, otherTypes |-> {}])
  IN [minCoverType |-> r.minCoverType, first |-> FALSE, otherCoverTypes |-> {}]

\* One turn of the loop over the attackers.
MinimumCoverStep(state, coverTypes, doc) ==
  LET r == ForEachCoverType(coverTypes, doc,
                            [minCoverType |-> state.minCoverType, otherTypes |-> {}])
  IN [minCoverType |-> r.minCoverType,
      first |-> FALSE,
      otherCoverTypes |-> IF state.first THEN r.otherTypes
                          ELSE state.otherCoverTypes \cap r.otherTypes]

RECURSIVE MinimumCoverLoop(_, _, _, _)
MinimumCoverLoop(attackers, lists, doc, state) ==
  IF attackers = << >> THEN state
  ELSE MinimumCoverLoop(Tail(attackers), lists, doc,
         MinimumCoverStep(state, coverTypesFromAttacker(lists, doc, Head(attackers)), doc))

\* CoverType.minimumCoverFromAttackers
minimumCoverFromAttackers(attackers, lists, doc) ==
  IF attackers = << >> THEN {}
  ELSE LET s == MinimumCoverLoop(attackers, lists, doc,
                  [minCoverType |-> << >>, first |-> TRUE, otherCoverTypes |-> {}])
       IN Range(s.minCoverType) \cup s.otherCoverTypes

CoverDocs(id) ==
  {[priority |-> p, percentThreshold |-> t, canOverlap |-> o,
    icon |-> id, includeWalls |-> TRUE, includeTokens |-> TRUE] :
     p \in CoverPriorities, t \in CoverThresholds, o \in BOOLEAN}

AttackerGroups == UNION {[1..n -> SimpleAttackers] : n \in 0..MaxAttackers}

CoverTypesForToken(attacker) ==
  /\ ReadLists
  /\ LET r == coverTypesForToken(ListsAfterRead, document, attacker)
     IN ret' = [op |-> "coverTypesForToken", attackers |-> <<attacker>>,
                types |-> r.types, tested |-> r.tested]
  /\ UNCHANGED <<catalogVars, effects, extVars>>

MinimumCoverFromAttackers(attackers) ==
  /\ IF attackers = << >> THEN UNCHANGED orderVars ELSE ReadLists
  /\ ret' = [op |-> "minimumCoverFromAttackers", attackers |-> attackers,
             result |-> minimumCoverFromAttackers(attackers, ListsAfterRead, document)]
  /\ UNCHANGED <<catalogVars, effects, extVars>>

InitCover ==
  /\ \E n \in 0..MaxCoverIds : coverObjectsMap = [i \in 1..n |-> i]
  /\ document \in [CoverIds -> UNION {CoverDocs(id) : id \in CoverIds} \cup {newCoverTypeData}]
  /\ \A id \in CoverIds :
       IF id \in Range(coverObjectsMap) THEN document[id] \in CoverDocs(id)
       ELSE document[id] = newCoverTypeData
  /\ storedIds = {}
  /\ settingsInFlight = 0
  /\ coverTypesModified = TRUE
  /\ coverTypesOrdered = << >>
  /\ coverTypesUnordered = << >>
  /\ effects = << >>
  /\ ret = [op |-> "init"]
  /\ InitExt

NextCover ==
  \/ \E attacker \in SimpleAttackers : CoverTypesForToken(attacker)
  \/ \E attackers \in AttackerGroups : MinimumCoverFromAttackers(attackers)

SpecCover == InitCover /\ [][NextCover]_vars

(***************************************************************************)
(* C4, C5, C9, C10: classification                                         *)
(***************************************************************************)
Catalog == Range(coverObjectsMap)

PriorityOf(id) == document[id].priority[1]

AppliesTo(id, attacker) ==
  attacker[<<document[id].includeWalls, document[id].includeTokens>>]
    >= document[id].percentThreshold

\* C4: coverTypesForToken walks the prioritized categories from the highest
\* priority value downward and stops at the first that applies: the result
\* holds at most one prioritized category, it has the greatest priority value
\* among the applying prioritized categories, and no prioritized category of
\* lower priority is tested after the match.
C4_StopsAtFirstPrioritizedMatch ==
  ret.op = "coverTypesForToken" =>
    LET attacker == ret.attackers[1]
        matched == {id \in Range(ret.types) : HasPriority(document[id].priority)}
    IN /\ Cardinality(matched) <= 1
       /\ \A m \in matched : \A id \in Catalog :
            HasPriority(document[id].priority) /\ AppliesTo(id, attacker)
              => PriorityOf(id) <= PriorityOf(m)
       /\ \A i, j \in 1..Len(ret.tested) :
            (i < j /\ ret.tested[i] \in matched)
              => ~(HasPriority(document[ret.tested[j]].priority)
                   /\ PriorityOf(ret.tested[j]) < PriorityOf(ret.tested[i]))

\* C5: an unprioritized category with canOverlap = false is skipped once the
\* result holds a category: the result never holds such a category together
\* with one added before it.
C5_NonOverlappingSkipped ==
  ret.op = "coverTypesForToken" =>
    \A i, j \in 1..Len(ret.types) :
      i < j => ~(~HasPriority(document[ret.types[j]].priority)
                 /\ ~document[ret.types[j]].canOverlap)

\* The per-pair cover set, stated from the catalog: the first applying
\* category in descending order of (truthy) priority, and every applying
\* category without one.
PerPairSet(attacker) ==
  LET prio == {id \in Catalog : Truthy(document[id].priority) /\ AppliesTo(id, attacker)}
      best == {id \in prio : \A o \in prio :
                 \/ PriorityOf(o) < PriorityOf(id)
                 \/ (PriorityOf(o) = PriorityOf(id) /\ o >= id)}
  IN best \cup {id \in Catalog : ~Truthy(document[id].priority) /\ AppliesTo(id, attacker)}

\* C9: minimumCoverFromAttackers returns the empty set for no attackers, and
\* for a single attacker the per-pair cover set of that attacker.
C9_ZeroAndOneAttacker ==
  ret.op = "minimumCoverFromAttackers" =>
    /\ Len(ret.attackers) = 0 => ret.result = {}
    /\ Len(ret.attackers) = 1 => ret.result = PerPairSet(ret.attackers[1])

C9_Witness ==
  /\ ret.op = "minimumCoverFromAttackers"
  /\ Len(ret.attackers) = 1
  /\ \E a, b \in ret.result :
       Truthy(document[a].priority) /\ ~Truthy(document[b].priority)

\* C10: for a non-empty group the result holds at most one prioritized
\* category, the one of smallest priority number among the prioritized
\* categories of the attackers' per-pair sets, holds an unprioritized
\* category iff every attacker's per-pair set does, and does not depend on
\* the order of the attackers.
C10_MinimumCoverOfGroup ==
  (ret.op = "minimumCoverFromAttackers" /\ ret.attackers # << >>) =>
    LET n == Len(ret.attackers)
        sets == [i \in 1..n |-> PerPairSet(ret.attackers[i])]
        all == UNION {sets[i] : i \in 1..n}
        prio == {id \in ret.result : HasPriority(document[id].priority)}
        reversed == [i \in 1..n |-> ret.attackers[n + 1 - i]]
    IN /\ Cardinality(prio) <= 1
       /\ \A m \in prio : \A id \in all :
            HasPriority(document[id].priority) => PriorityOf(m) <= PriorityOf(id)
       /\ (\E id \in all : HasPriority(document[id].priority)) => prio # {}
       /\ \A id \in Catalog :
            ~HasPriority(document[id].priority)
              => ((id \in ret.result) = (\A i \in 1..n : id \in sets[i]))
       /\ ret.result = minimumCoverFromAttackers(reversed, ListsAfterRead, document)

\* C11: minimumCoverFromAttackers returns only cover that holds against every
\* attacker: when some attacker's per-pair set holds no prioritized category
\* the result holds none, and when some attacker's per-pair set is empty the
\* result is empty.
C11_HoldsAgainstEveryAttacker ==
  ret.op = "minimumCoverFromAttackers" =>
    LET n == Len(ret.attackers)
        sets == [i \in 1..n |-> PerPairSet(ret.attackers[i])]
    IN /\ (\E i \in 1..n : \A id \in sets[i] : ~HasPriority(document[id].priority))
            => (\A id \in ret.result : ~HasPriority(document[id].priority))
       /\ (\E i \in 1..n : sets[i] = {}) => ret.result = {}

\* C12: in a catalog of prioritized categories and unprioritized categories
\* that can overlap, coverTypesForToken returns for an occlusion p the
\* prioritized category of greatest priority value among those whose
\* threshold is <= p, every unprioritized category whose threshold is <= p,
\* and nothing else.
C12_HighestPrioritizedPlusOverlapping ==
  (/\ ret.op = "coverTypesForToken"
   /\ \A id \in Catalog : HasPriority(document[id].priority) \/ document[id].canOverlap)
    => LET p == ret.attackers[1][<<TRUE, TRUE>>]
           prio == {id \in Catalog : /\ HasPriority(document[id].priority)
                                     /\ document[id].percentThreshold <= p}
           other == {id \in Catalog : /\ ~HasPriority(document[id].priority)
                                      /\ document[id].percentThreshold <= p}
           got == Range(ret.types)
       IN /\ other = {id \in got : ~HasPriority(document[id].priority)}
          /\ Cardinality(got \ other) <= 1
          /\ got \ other \subseteq prio
          /\ prio # {} => got \ other # {}
          /\ \A m \in got \ other : \A id \in prio : PriorityOf(id) <= PriorityOf(m)

(***************************************************************************)
(* Cover icons on a token                                                  *)
(***************************************************************************)
MaxTokenIds == 2        \* catalog size of the token specification

TokenIds == 1..MaxTokenIds

\* Icons a token may show: 1..MaxTokenIds are available to cover types,
\* 0 is a status icon that no cover type uses.
TokenIcons == 0..MaxTokenIds

\* JavaScript return values: booleans and numbers are kept apart.
JsBoolean(b) == [type |-> "boolean", value |-> IF b THEN 1 ELSE 0]
JsNumber(n) == [type |-> "number", value |-> n]
IsTruthy(v) == v.value # 0

\* findSpliceAll(arr, fn): every matching element is removed in place.
findSpliceAll(arr, matching) == SelectSeq(arr, LAMBDA e : e \notin matching)

\* CoverType#removeFromToken
removeFromToken(id, doc, eff) ==
  LET change == doc[id].icon \in Range(eff)
  IN [effects |-> IF change THEN findSpliceAll(eff, {doc[id].icon}) ELSE eff,
      value |-> JsBoolean(change)]

\* The loop of addToToken over the other non-overlapping cover types.
RECURSIVE RemoveOthers(_, _, _, _)
RemoveOthers(others, doc, tokenEffectIcons, eff) ==
  IF others = << >> THEN eff
  ELSE RemoveOthers(Tail(others), doc, tokenEffectIcons,
         IF doc[Head(others)].icon \in tokenEffectIcons
         THEN removeFromToken(Head(others), doc, eff).effects
         ELSE eff)

addToTokenKeepingOthers(id, map, doc, eff) ==
  IF doc[id].icon \in Range(eff)
  THEN [effects |-> eff, value |-> JsBoolean(FALSE)]
  ELSE [effects |-> Append(eff, doc[id].icon), value |-> JsBoolean(TRUE)]

\* CoverType#addToToken
addToToken(id, map, doc, eff) ==
  LET icon == doc[id].icon
  IN IF icon \in Range(eff) THEN [effects |-> eff, value |-> JsBoolean(FALSE)]
     ELSE IF doc[id].canOverlap
          THEN [effects |-> Append(eff, icon), value |-> JsBoolean(TRUE)]
          ELSE LET otherCoverTypes ==
                     SelectSeq(map, LAMBDA ct : doc[ct].icon # icon /\ ~doc[ct].canOverlap)
                   cleared == RemoveOthers(otherCoverTypes, doc, Range(eff), eff)
               IN [effects |-> Append(cleared, icon), value |-> JsBoolean(TRUE)]

\* The reduce of replaceCoverTypes: every cover type is added, acc || out.
RECURSIVE AddEach(_, _, _, _)
AddEach(coverTypes, map, doc, acc) ==
  IF coverTypes = << >> THEN acc
  ELSE LET out == addToToken(Head(coverTypes), map, doc, acc.effects)
       IN AddEach(Tail(coverTypes), map, doc,
                  [effects |-> out.effects, res |-> acc.res \/ IsTruthy(out.value)])

\* CoverType.replaceCoverTypes; coverTypes in the iteration order of the Set.
replaceCoverTypes(coverTypes, map, doc, eff) ==
  IF coverTypes = << >>
  THEN IF eff = << >> THEN [effects |-> eff, value |-> JsBoolean(FALSE)]
       ELSE [effects |-> << >>, value |-> JsBoolean(TRUE)]
  ELSE LET toKeep == {doc[ct].icon : ct \in Range(coverTypes)}
           toRemove == Range(eff) \ toKeep
           changed == Cardinality(toRemove)
           kept == IF changed # 0 THEN findSpliceAll(eff, toRemove) ELSE eff
           added == AddEach(coverTypes, map, doc, [effects |-> kept, res |-> FALSE])
       IN [effects |-> added.effects,
           value |-> IF added.res THEN JsBoolean(TRUE) ELSE JsNumber(changed)]

TokenDocs ==
  {[priority |-> NoPriority, percentThreshold |-> 50, canOverlap |-> o,
    icon |-> i, includeWalls |-> TRUE, includeTokens |-> TRUE] :
     o \in BOOLEAN, i \in TokenIcons \ {0}}

CatalogIcons == {document[id].icon : id \in Range(coverObjectsMap)}

\* Sets of cover types as the sequences in which a Set iterates them.
CoverTypeSets ==
  {s \in UNION {[1..n -> Range(coverObjectsMap)] : n \in 0..Len(coverObjectsMap)} :
     IsInjective(s)}

AddToToken(id) ==
  /\ id \in Range(coverObjectsMap)
  /\ LET r == addToToken(id, coverObjectsMap, document, effects)
     IN /\ effects' = r.effects
        /\ ret' = [op |-> "addToToken", id |-> id, before |-> effects, value |-> r.value]
  /\ UNCHANGED <<catalogVars, orderVars, extVars>>

RemoveFromToken(id) ==
  /\ id \in Range(coverObjectsMap)
  /\ LET r == removeFromToken(id, document, effects)
     IN /\ effects' = r.effects
        /\ ret' = [op |-> "removeFromToken", id |-> id, before |-> effects, value |-> r.value]
  /\ UNCHANGED <<catalogVars, orderVars, extVars>>

ReplaceCoverTypes(coverTypes) ==
  /\ LET r == replaceCoverTypes(coverTypes, coverObjectsMap, document, effects)
     IN /\ effects' = r.effects
        /\ ret' = [op |-> "replaceCoverTypes", coverTypes |-> coverTypes,
                   before |-> effects, value |-> r.value]
  /\ UNCHANGED <<catalogVars, orderVars, extVars>>

\* The host toggles a status icon that belongs to no cover type.
ToggleStatusEffect(icon) ==
  /\ icon \notin CatalogIcons
  /\ effects' = IF icon \in Range(effects) THEN findSpliceAll(effects, {icon})
                ELSE Append(effects, icon)
  /\ ret' = [op |-> "toggleStatusEffect", icon |-> icon]
  /\ UNCHANGED <<catalogVars, orderVars, extVars>>

InitToken ==
  /\ \E n \in 0..MaxTokenIds : coverObjectsMap = [i \in 1..n |-> i]
  /\ document \in [TokenIds -> TokenDocs \cup {newCoverTypeData}]
  /\ \A id \in TokenIds :
       IF id \in Range(coverObjectsMap) THEN document[id] \in TokenDocs
       ELSE document[id] = newCoverTypeData
  /\ storedIds = {}
  /\ settingsInFlight = 0
  /\ coverTypesModified = TRUE
  /\ coverTypesOrdered = << >>
  /\ coverTypesUnordered = << >>
  /\ effects = << >>
  /\ ret = [op |-> "init"]
  /\ InitExt

NextToken ==
  \/ \E id \in TokenIds : AddToToken(id)
  \/ \E id \in TokenIds : RemoveFromToken(id)
  \/ \E coverTypes \in CoverTypeSets : ReplaceCoverTypes(coverTypes)
  \/ \E icon \in TokenIcons : ToggleStatusEffect(icon)

SpecToken == InitToken /\ [][NextToken]_vars

(***************************************************************************)
(* C6..C8: icons on the token                                              *)
(***************************************************************************)
NonOverlappingShown ==
  {id \in Catalog : ~document[id].canOverlap /\ document[id].icon \in Range(effects)}

\* C6 as stated: after any sequence of addToToken, removeFromToken and
\* replaceCoverTypes on a token that starts without effects, the effect list
\* holds the icon of at most one catalog category with canOverlap = false.
C6_AtMostOneNonOverlapping == Cardinality(NonOverlappingShown) <= 1

\* No category with canOverlap = false has the icon of another category.
NonOverlappingIconsUnshared ==
  \A a, b \in Catalog :
    (a # b /\ ~document[a].canOverlap) => document[a].icon # document[b].icon

\* C6 amended: when no non-overlapping category shares its icon with another
\* category of the catalog, the effect list holds the icon of at most one
\* catalog category with canOverlap = false.
C6_AtMostOneNonOverlappingUnshared ==
  NonOverlappingIconsUnshared => Cardinality(NonOverlappingShown) <= 1

C6_Witness ==
  /\ NonOverlappingIconsUnshared
  /\ ret.op = "addToToken"
  /\ ~document[ret.id].canOverlap
  /\ \E other \in Catalog :
       /\ ~document[other].canOverlap
       /\ document[other].icon \in Range(ret.before)
       /\ document[other].icon \notin Range(effects)
  /\ document[ret.id].icon \in Range(effects)

\* C7: replaceCoverTypes is idempotent: a second call with the same set right
\* after the first leaves the effect list unchanged and returns false.
C7_ReplaceIdempotent ==
  ret.op = "replaceCoverTypes" =>
    LET again == replaceCoverTypes(ret.coverTypes, coverObjectsMap, document, effects)
    IN /\ again.effects = effects
       /\ ~IsTruthy(again.value)

\* C8: replaceCoverTypes leaves every effect that is not the icon of a
\* catalog category on the token, in the same relative order.
C8_ReplaceKeepsOtherEffects ==
  ret.op = "replaceCoverTypes" =>
    SelectSeq(effects, LAMBDA e : e \notin CatalogIcons)
      = SelectSeq(ret.before, LAMBDA e : e \notin CatalogIcons)

(***************************************************************************)
(* coverTypeApplies of one category, with oracles that depend on the flags *)
(***************************************************************************)
MaxAppliesIds == 2      \* catalog size of the coverTypeApplies specification

AppliesIds == 1..MaxAppliesIds

\* Oracles whose answer may differ with {includeWalls, includeTokens}.
FlagAttackers == [FlagPairs -> CoverPercents]

AppliesDocs(id) ==
  {[priority |-> NoPriority, percentThreshold |-> t, canOverlap |-> TRUE,
    icon |-> id, includeWalls |-> w, includeTokens |-> k] :
     t \in CoverThresholds, w \in BOOLEAN, k \in BOOLEAN}

\* coverType.coverTypeApplies(attackingToken, targetToken)
\* The call coverType.coverTypeApplies(attacker, target) that Init chose.
CoverTypeApplies ==
  /\ ret.op = "init"
  /\ ret' = [ret EXCEPT !.op = "coverTypeApplies",
                        !.value = coverTypeApplies(document[ret.id], ret.attacker)]
  /\ UNCHANGED <<catalogVars, orderVars, effects, extVars>>

InitApplies ==
  /\ \E n \in 1..MaxAppliesIds : coverObjectsMap = [i \in 1..n |-> i]
  /\ document \in [AppliesIds -> UNION {AppliesDocs(id) : id \in AppliesIds}
                                   \cup {newCoverTypeData}]
  /\ \A id \in AppliesIds :
       IF id \in Range(coverObjectsMap) THEN document[id] \in AppliesDocs(id)
       ELSE document[id] = newCoverTypeData
  /\ storedIds = {}
  /\ settingsInFlight = 0
  /\ coverTypesModified = TRUE
  /\ coverTypesOrdered = << >>
  /\ coverTypesUnordered = << >>
  /\ effects = << >>
  /\ InitExt
  /\ \E id \in Range(coverObjectsMap), attacker \in FlagAttackers :
       ret = [op |-> "init", id |-> id, attacker |-> attacker, value |-> FALSE]

NextApplies == CoverTypeApplies

SpecApplies == InitApplies /\ [][NextApplies]_vars

\* C13: coverTypeApplies of a generic CoverType is true iff the oracle, asked
\* with the category's own includeWalls and includeTokens, answers at least
\* the category's percentThreshold; the call changes neither the catalog,
\* nor the dirty flag and the lists, nor the token.
C13_AppliesIffOracleAtLeastThreshold ==
  /\ [](ret.op = "coverTypeApplies" =>
          LET d == document[ret.id]
          IN ret.value <=>
               ret.attacker[<<d.includeWalls, d.includeTokens>>] >= d.percentThreshold)
  /\ [][ret'.op = "coverTypeApplies"
          => UNCHANGED <<catalogVars, orderVars, effects>>]_vars

\* The category applies at exactly its threshold, while the oracle answers
\* less than the threshold for every other pair of flags.
C13_Witness ==
  /\ ret.op = "coverTypeApplies"
  /\ ret.value
  /\ LET d == document[ret.id]
         own == <<d.includeWalls, d.includeTokens>>
     IN /\ ret.attacker[own] = d.percentThreshold
        /\ \A f \in FlagPairs \ {own} : ret.attacker[f] < d.percentThreshold

(***************************************************************************)
(* CoverTypeDND5E: attackers that ignore cover                             *)
(***************************************************************************)
MaxDnd5eIds == 2        \* catalog size of the dnd5e specification

Dnd5eIds == 1..MaxDnd5eIds

\* attackingToken.tokencover.ignoresCover: a level per action type, on the
\* scale of percentThreshold; 0 stands for a missing (or zero) level.
IgnoresLevels == {0, 50, 100}
ActionTypeKeys == {"all", "rwak"}
NoActionType == "undefined"
ActionTypeOpts == {NoActionType, "rwak"}

Dnd5eAttackers ==
  {[cover |-> c, ignoresCover |-> i] :
     c \in SimpleAttackers, i \in [ActionTypeKeys -> IgnoresLevels]}

\* attackingToken.tokencover.ignoresCover?.[opts.actionType ?? "all"]
ignoresCoverLevel(attacker, actionType) ==
  attacker.ignoresCover[IF actionType = NoActionType THEN "all" ELSE actionType]

coverTypeAppliesDND5ENotOverridden(doc, attacker, actionType) ==
  coverTypeApplies(doc, attacker.cover)

\* CoverTypeDND5E#coverTypeApplies
coverTypeAppliesDND5E(doc, attacker, actionType) ==
  LET ignoresCover == ignoresCoverLevel(attacker, actionType)
  IN IF ignoresCover # 0 /\ ignoresCover >= doc.percentThreshold THEN FALSE
     ELSE coverTypeApplies(doc, attacker.cover)

\* The loops of the inherited coverTypesForToken: type.coverTypeApplies is
\* the method of the dnd5e class.
RECURSIVE TestOrderedDND5E(_, _, _, _)
TestOrderedDND5E(ordered, doc, attacker, actionType) ==
  IF ordered = << >> THEN [types |-> << >>, tested |-> << >>]
  ELSE IF coverTypeAppliesDND5E(doc[Head(ordered)], attacker, actionType)
       THEN [types |-> <<Head(ordered)>>, tested |-> <<Head(ordered)>>]
       ELSE LET r == TestOrderedDND5E(Tail(ordered), doc, attacker, actionType)
            IN [types |-> r.types, tested |-> <<Head(ordered)>> \o r.tested]

RECURSIVE TestUnorderedDND5E(_, _, _, _, _)
TestUnorderedDND5E(unordered, doc, attacker, actionType, acc) ==
  IF unordered = << >> THEN acc
  ELSE LET type == Head(unordered)
           next ==
             IF ~doc[type].canOverlap /\ TypesLengthTruthy(acc.types) THEN acc
             ELSE [types |-> IF coverTypeAppliesDND5E(doc[type], attacker, actionType)
                             THEN Append(acc.types, type) ELSE acc.types,
                   tested |-> Append(acc.tested, type)]
       IN TestUnorderedDND5E(Tail(unordered), doc, attacker, actionType, next)

\* CoverTypeDND5E.coverTypesForToken
coverTypesForTokenDND5E(lists, doc, attacker, actionType) ==
  LET coverTypes == TestUnorderedDND5E(lists.unordered, doc, attacker, actionType,
                      TestOrderedDND5E(lists.ordered, doc, attacker, actionType)).types
      ignoresCover == ignoresCoverLevel(attacker, actionType)
  IN IF coverTypes = << >> THEN coverTypes
     ELSE IF ignoresCover = 0 THEN coverTypes
     ELSE SelectSeq(coverTypes, LAMBDA id : ~(doc[id].percentThreshold <= ignoresCover))

Dnd5eDocs(id) ==
  {[priority |-> p, percentThreshold |-> t, canOverlap |-> o,
    icon |-> id, includeWalls |-> TRUE, includeTokens |-> TRUE] :
     p \in CoverPriorities, t \in CoverThresholds, o \in BOOLEAN}

\* The call CoverTypeDND5E.coverTypesForToken(attacker, target, opts) that
\* Init chose.
CoverTypesForTokenDND5E ==
  /\ ret.op = "init"
  /\ ReadLists
  /\ ret' = [ret EXCEPT !.op = "coverTypesForTokenDND5E",
                        !.types = coverTypesForTokenDND5E(ListsAfterRead, document,
                                                          ret.attacker, ret.actionType)]
  /\ UNCHANGED <<catalogVars, effects, extVars>>

InitDND5E ==
  /\ \E n \in 0..MaxDnd5eIds : coverObjectsMap = [i \in 1..n |-> i]
  /\ document \in [Dnd5eIds -> UNION {Dnd5eDocs(id) : id \in Dnd5eIds}
                                 \cup {newCoverTypeData}]
  /\ \A id \in Dnd5eIds :
       IF id \in Range(coverObjectsMap) THEN document[id] \in Dnd5eDocs(id)
       ELSE document[id] = newCoverTypeData
  /\ storedIds = {}
  /\ settingsInFlight = 0
  /\ coverTypesModified = TRUE
  /\ coverTypesOrdered = << >>
  /\ coverTypesUnordered = << >>
  /\ effects = << >>
  /\ InitExt
  /\ \E attacker \in Dnd5eAttackers, actionType \in ActionTypeOpts :
       ret = [op |-> "init", attacker |-> attacker, actionType |-> actionType,
              types |-> << >>]

NextDND5E == CoverTypesForTokenDND5E

SpecDND5E == InitDND5E /\ [][NextDND5E]_vars

\* What the generic coverTypesForToken returns for the pair of the last call.
GenericTypes == coverTypesForToken(ListsAfterRead, document, ret.attacker.cover).types

Ignored(id) ==
  LET level == ignoresCoverLevel(ret.attacker, ret.actionType)
  IN level # 0 /\ document[id].percentThreshold <= level

\* C14 as stated: the dnd5e coverTypesForToken returns exactly the generic
\* result for the same pair minus every category whose percentThreshold is at
\* or below the attacker's ignores-cover level for the action type.
C14_GenericMinusIgnored ==
  ret.op = "coverTypesForTokenDND5E" =>
    /\ Range(ret.types) = {id \in Range(GenericTypes) : ~Ignored(id)}
    /\ Range(ret.types) \subseteq Range(GenericTypes)

\* C14 amended: the dnd5e coverTypesForToken returns what the generic walk
\* returns over the catalog without the ignored categories; it holds no
\* ignored category and equals the generic result when the attacker has no
\* level for the action type.
C14_GenericOverUnignored ==
  ret.op = "coverTypesForTokenDND5E" =>
    LET lists == ListsAfterRead
        kept == [ordered |-> SelectSeq(lists.ordered, LAMBDA id : ~Ignored(id)),
                 unordered |-> SelectSeq(lists.unordered, LAMBDA id : ~Ignored(id))]
    IN /\ ret.types = coverTypesForToken(kept, document, ret.attacker.cover).types
       /\ \A id \in Range(ret.types) : ~Ignored(id)
       /\ ignoresCoverLevel(ret.attacker, ret.actionType) = 0 => ret.types = GenericTypes

\* An ignored category of higher priority gives way to one the generic walk
\* never reaches.
C14_Witness ==
  /\ ret.op = "coverTypesForTokenDND5E"
  /\ \E id \in Range(ret.types) : id \notin Range(GenericTypes)
  /\ \E id \in Range(GenericTypes) : Ignored(id)

(***************************************************************************)
(* CoverTypePF2E: lesser cover upgraded by a large blocking creature       *)
(***************************************************************************)
MaxBlockers == 2        \* tokens in coverCalculator.calc.blockingObjects.tokens

\* Ids of the pf2e categories, `${MODULE_ID}.pf2e.<name>` with MODULE_ID
\* "tokencover".
LesserId == "tokencover.pf2e.lesser"
StandardId == "tokencover.pf2e.standard"
Pf2eIds == {LesserId, StandardId}
Pf2eIdOrders == {<<LesserId, StandardId>>, <<StandardId, LesserId>>}

\* The keys coverTypesForToken looks up: template literals without ${ },
\* which evaluate to the text as written.
LesserKey == "[MODULE_ID].pf2e.lesser"
StandardKey == "[MODULE_ID].pf2e.standard"

\* The object literal: the rank of each size label.
ActorSizeRanks == [tiny |-> 1, sm |-> 2, med |-> 3, lg |-> 4, huge |-> 5, grg |-> 6]

\* ACTOR_SIZES after Object.entries(ACTOR_SIZES).forEach(([key, value]) =>
\* ACTOR_SIZES[value] = key): the keys "1" .. "6" hold the labels.
ACTOR_SIZES ==
  ActorSizeRanks @@
    [k \in {ToString(ActorSizeRanks[l]) : l \in DOMAIN ActorSizeRanks} |->
       CHOOSE l \in DOMAIN ActorSizeRanks : ToString(ActorSizeRanks[l]) = k]

\* token.system.traits.size.value as met in play; "unknown" is a label that
\* ACTOR_SIZES does not hold.
SizeLabels == {"tiny", "sm", "med", "huge", "unknown"}

\* ACTOR_SIZES is a plain object: a lookup also finds what it inherits from
\* Object.prototype, a function or an object that is named here by its key.
ObjectPrototype ==
  [k \in {"constructor", "hasOwnProperty", "isPrototypeOf", "propertyIsEnumerable",
          "toLocaleString", "toString", "valueOf", "__proto__", "__defineGetter__",
          "__defineSetter__", "__lookupGetter__", "__lookupSetter__"} |->
     "Object.prototype." \o k]

\* ACTOR_SIZES[label] ?? ACTOR_SIZES.med
ActorSize(label) ==
  IF label \in DOMAIN ACTOR_SIZES THEN ACTOR_SIZES[label]
  ELSE IF label \in DOMAIN ObjectPrototype THEN ObjectPrototype[label]
  ELSE ACTOR_SIZES.med

Max(a, b) == IF a >= b THEN a ELSE b

\* ActorSize(label) as Math.max and > take it: <<n>> is the number n, << >>
\* is NaN, which a size name ("tiny" under the key "1") and an inherited
\* function or object convert to.
SizeNumber(label) ==
  IF label \in DOMAIN ActorSizeRanks THEN <<ActorSize(label)>>
  ELSE IF label \in DOMAIN ACTOR_SIZES \cup DOMAIN ObjectPrototype THEN << >>
  ELSE <<ActorSize(label)>>

\* Math.max(a, b) + 1
MathMaxPlusOne(a, b) ==
  IF a = << >> \/ b = << >> THEN << >> ELSE <<Max(a[1], b[1]) + 1>>

\* a > b: false when either side is NaN
GreaterThan(a, b) ==
  IF a = << >> \/ b = << >> THEN FALSE ELSE a[1] > b[1]

\* Map.prototype.get: << >> is undefined.
MapGet(map, key) == IF key \in Range(map) THEN <<key>> ELSE << >>

\* types.delete(lesserCover); types.add(standardCover) on a Set
UpgradeLesser(types, lesserCover, standardCover) ==
  LET removed == SelectSeq(types, LAMBDA id : id # lesserCover)
  IN IF standardCover \in Range(removed) THEN removed ELSE Append(removed, standardCover)

\* CoverTypePF2E.coverTypesForToken
coverTypesForTokenPF2E(lists, map, doc, attacker) ==
  LET types == coverTypesForToken(lists, doc, attacker.cover).types
      standardCover == MapGet(map, StandardKey)
      lesserCover == MapGet(map, LesserKey)
  IN IF types = << >> THEN types
     ELSE IF \/ standardCover = << >>
             \/ lesserCover = << >>
             \/ lesserCover[1] \notin Range(types)
     THEN types
     ELSE LET targetSize == SizeNumber(attacker.targetSize)
              attackerSize == SizeNumber(attacker.attackerSize)
              upgradeSize == MathMaxPlusOne(targetSize, attackerSize)
          IN IF \E i \in 1..Len(attacker.blockers) :
                  GreaterThan(SizeNumber(attacker.blockers[i]), upgradeSize)
             THEN UpgradeLesser(types, lesserCover[1], standardCover[1])
             ELSE types

Pf2ePriorities == {NoPriority, <<1>>}

Pf2eDocs(id) ==
  {[priority |-> p, percentThreshold |-> t, canOverlap |-> TRUE,
    icon |-> id, includeWalls |-> TRUE, includeTokens |-> TRUE] :
     p \in Pf2ePriorities, t \in CoverThresholds}

Pf2eAttackers ==
  {[cover |-> c, attackerSize |-> a, targetSize |-> t, blockers |-> b] :
     c \in SimpleAttackers, a \in SizeLabels, t \in SizeLabels,
     b \in UNION {[1..n -> SizeLabels] : n \in 0..MaxBlockers}}

\* The call CoverTypePF2E.coverTypesForToken(attacker, target) that Init chose.
CoverTypesForTokenPF2E ==
  /\ ret.op = "init"
  /\ ReadLists
  /\ ret' = [ret EXCEPT !.op = "coverTypesForTokenPF2E",
                        !.types = coverTypesForTokenPF2E(ListsAfterRead, coverObjectsMap,
                                                         document, ret.attacker)]
  /\ UNCHANGED <<catalogVars, effects, extVars>>

InitPF2E ==
  /\ \E order \in Pf2eIdOrders, n \in 0..2 : coverObjectsMap = SubSeq(order, 1, n)
  /\ document \in [Pf2eIds -> UNION {Pf2eDocs(id) : id \in Pf2eIds}
                                \cup {newCoverTypeData}]
  /\ \A id \in Pf2eIds :
       IF id \in Range(coverObjectsMap) THEN document[id] \in Pf2eDocs(id)
       ELSE document[id] = newCoverTypeData
  /\ storedIds = {}
  /\ settingsInFlight = 0
  /\ coverTypesModified = TRUE
  /\ coverTypesOrdered = << >>
  /\ coverTypesUnordered = << >>
  /\ effects = << >>
  /\ InitExt
  /\ \E attacker \in Pf2eAttackers :
       ret = [op |-> "init", attacker |-> attacker, types |-> << >>]

NextPF2E == CoverTypesForTokenPF2E

SpecPF2E == InitPF2E /\ [][NextPF2E]_vars

\* C15: when the catalog defines both the pf2e lesser and the pf2e standard
\* category and the generic result holds lesser, the pf2e coverTypesForToken
\* returns standard in place of lesser iff some blocking token is at least
\* two size ranks above the larger of attacker and target (an unknown label
\* counting as medium); in every other case it returns the generic result.
C15_LesserUpgradedToStandard ==
  ret.op = "coverTypesForTokenPF2E" =>
    LET a == ret.attacker
        generic == Range(coverTypesForToken(ListsAfterRead, document, a.cover).types)
        larger == Max(ActorSize(a.attackerSize), ActorSize(a.targetSize))
        big == \E i \in 1..Len(a.blockers) : ActorSize(a.blockers[i]) >= larger + 2
    IN IF Pf2eIds \subseteq Catalog /\ LesserId \in generic /\ big
       THEN Range(ret.types) = (generic \ {LesserId}) \cup {StandardId}
       ELSE Range(ret.types) = generic

(***************************************************************************)
(* The sheet-refresh queue of CoverEffect.js                               *)
(***************************************************************************)
MaxTasks == 3           \* queueSheetRefresh calls in one behaviour

MAX_ITER == 10

\* Application.RENDER_STATES as far as rerenderActorSheet tells them apart:
\* sheet.rendered is true in state RENDERED only.
SheetStates == {"NONE", "RENDERING", "RENDERED"}

IterAfterPollNotCounting(iter) == iter

\* iter += 1
IterAfterPoll(iter) == iter + 1

rerenderActorSheetNotAwaitingRender(iter, state) ==
  IF iter < MAX_ITER /\ state = "RENDERING"
  THEN [pc |-> "sleeping", iter |-> IterAfterPoll(iter), renders |-> FALSE]
  ELSE IF state = "RENDERED"
       THEN [pc |-> "done", iter |-> iter, renders |-> TRUE]
       ELSE [pc |-> "done", iter |-> iter, renders |-> FALSE]

\* rerenderActorSheet from the test of its while loop up to the next await:
\* it sleeps, or awaits sheet.render(true), or returns.
rerenderActorSheet(iter, state) ==
  IF iter < MAX_ITER /\ state = "RENDERING"
  THEN [pc |-> "sleeping", iter |-> IterAfterPoll(iter), renders |-> FALSE]
  ELSE IF state = "RENDERED"
       THEN [pc |-> "rendering", iter |-> iter, renders |-> TRUE]
       ELSE [pc |-> "done", iter |-> iter, renders |-> FALSE]

\* Book-keeping of one run of rerenderActorSheet for refresh id.
Ran(hist, id, r, state) ==
  [hist EXCEPT
     !.rendering = IF r.renders THEN @ \cup {id} ELSE @,
     !.finished = IF r.pc = "done" THEN Append(@, id) ELSE @,
     !.gaveUp = IF r.pc = "done" /\ r.iter = MAX_ITER /\ state = "RENDERING"
                THEN @ \cup {id} ELSE @]

\* AsyncQueue: the functions are taken from the front and awaited one after
\* the other until the queue is empty.
RECURSIVE ProcessQueue(_, _, _)
ProcessQueue(queue, hist, state) ==
  IF queue = << >> THEN [queue |-> queue, task |-> NoTask, history |-> hist]
  ELSE LET id == Head(queue)
           r == rerenderActorSheet(0, state)
           h == Ran([hist EXCEPT !.started = Append(@, id)], id, r, state)
       IN IF r.pc = "done" THEN ProcessQueue(Tail(queue), h, state)
          ELSE [queue |-> Tail(queue),
                task |-> [id |-> id, pc |-> r.pc, iter |-> r.iter],
                history |-> h]

SetQueue(q) ==
  /\ renderQueue' = q.queue
  /\ task' = q.task
  /\ history' = q.history

\* queueSheetRefresh(actor): renderQueue.enqueue(queueObjectFn(100, actor))
QueueSheetRefresh ==
  /\ history.enqueued < MaxTasks
  /\ LET id == history.enqueued + 1
         h == [history EXCEPT !.enqueued = id]
     IN IF task.pc = "idle"
        THEN SetQueue(ProcessQueue(Append(renderQueue, id), h, sheet))
        ELSE /\ renderQueue' = Append(renderQueue, id)
             /\ history' = h
             /\ task' = task
  /\ ret' = [op |-> "queueSheetRefresh"]
  /\ UNCHANGED <<catalogVars, orderVars, effects, effectVars, actorVars, polygonVars, sheet>>

\* The promise of sleep(ms) resolves: the while loop is tested again.
SleepResolves ==
  /\ task.pc = "sleeping"
  /\ LET r == rerenderActorSheet(task.iter, sheet)
         h == Ran(history, task.id, r, sheet)
     IN IF r.pc = "done"
        THEN SetQueue(ProcessQueue(renderQueue, h, sheet))
        ELSE /\ task' = [id |-> task.id, pc |-> r.pc, iter |-> r.iter]
             /\ history' = h
             /\ renderQueue' = renderQueue
  /\ ret' = [op |-> "sleep"]
  /\ UNCHANGED <<catalogVars, orderVars, effects, effectVars, actorVars, polygonVars, sheet>>

\* The promise of actor.sheet.render(true) resolves: the function returns.
RenderResolves ==
  /\ task.pc = "rendering"
  /\ LET h == [history EXCEPT !.rendering = @ \ {task.id},
                              !.finished = Append(@, task.id)]
     IN SetQueue(ProcessQueue(renderQueue, h, sheet))
  /\ ret' = [op |-> "render"]
  /\ UNCHANGED <<catalogVars, orderVars, effects, effectVars, actorVars, polygonVars, sheet>>

\* The sheet is opened, closed or rendered by the application.
SheetChanges(state) ==
  /\ state # sheet
  /\ sheet' = state
  /\ ret' = [op |-> "sheet"]
  /\ UNCHANGED <<catalogVars, orderVars, effects, effectVars, actorVars, polygonVars, renderQueue, task,
               history>>

InitQueue ==
  /\ coverObjectsMap = << >>
  /\ document = << >>
  /\ storedIds = {}
  /\ settingsInFlight = 0
  /\ coverTypesModified = FALSE
  /\ coverTypesOrdered = << >>
  /\ coverTypesUnordered = << >>
  /\ effects = << >>
  /\ InitActor
  /\ InitNoPolygon
  /\ flags = NoModuleFlags
  /\ sheet \in SheetStates
  /\ renderQueue = << >>
  /\ task = NoTask
  /\ history = NoHistory
  /\ ret = [op |-> "init"]

NextQueue ==
  \/ QueueSheetRefresh
  \/ SleepResolves
  \/ RenderResolves
  \/ \E state \in SheetStates : SheetChanges(state)

SpecQueue == InitQueue /\ [][NextQueue]_vars

\* Timers fire and a render that was started comes to an end.
SpecQueueFair == SpecQueue /\ WF_vars(SleepResolves) /\ WF_vars(RenderResolves)

\* C16: the refreshes are run strictly one at a time in the order of the
\* queueSheetRefresh calls: a refresh starts only when the one before it has
\* finished, its polling and its render included, and no refresh is dropped,
\* reordered or retracted.
C16_OneAtATimeInSubmissionOrder ==
  LET h == history
  IN /\ h.started \o renderQueue = [i \in 1..h.enqueued |-> i]
     /\ h.finished = SubSeq(h.started, 1, Len(h.finished))
     /\ Len(h.started) <= Len(h.finished) + 1
     /\ (task.pc # "idle") <=> (Len(h.started) = Len(h.finished) + 1)
     /\ task.pc # "idle" => task.id = h.started[Len(h.started)]
     /\ \A k \in h.rendering : task.id = k /\ task.pc = "rendering"

\* The second refresh renders after the first has finished, and a third
\* is waiting behind it.
C16_Witness ==
  /\ history.finished = <<1>>
  /\ task.id = 2
  /\ task.pc = "rendering"
  /\ renderQueue = <<3>>

\* C17: a refresh never waits without end for the sheet: it polls at most
\* MAX_ITER times, so that every refresh in progress leaves its wait loop and
\* every refresh in the queue is started, even if the sheet stays RENDERING.
C17_WaitIsBounded ==
  /\ [](task.iter <= MAX_ITER)
  /\ \A k \in 1..MaxTasks :
       (task.id = k /\ task.pc = "sleeping") ~> ~(task.id = k /\ task.pc = "sleeping")
  /\ \A k \in 1..MaxTasks :
       (k \in Range(renderQueue)) ~> (k \in Range(history.started))

\* A refresh gave up at the cap while the sheet was still RENDERING, and the
\* refresh behind it has been started.
C17_Witness ==
  /\ 1 \in history.gaveUp
  /\ 2 \in Range(history.started)
  /\ sheet = "RENDERING"

(***************************************************************************)
(* CoverEffect: the cover types an effect stands for                       *)
(***************************************************************************)
MaxEffectIds == 2       \* CoverType ids known to the effect specification
MaxEffectTypes == 2     \* length of an effect's cover-type list

EffectIds == 1..MaxEffectIds

\* flags[MODULE_ID][FLAGS.COVER_TYPES] when the flag is not set; <<l>> is the
\* array l.
NoCoverTypesFlag == << >>

\* Arguments of the setter and of the two methods: a CoverType object, a
\* string (the id of id i; 0 is a string that is no id), or anything else.
EffectValues ==
  {[kind |-> "CoverType", id |-> i] : i \in EffectIds}
    \cup {[kind |-> "string", id |-> i] : i \in EffectIds \cup {0}}
    \cup {[kind |-> "other", id |-> 0]}

\* if ( typeof value === "string" ) value = coverObjectsMap.get(value)
coverObjectsMapGet(value, map) ==
  IF value.kind # "string" THEN value
  ELSE IF value.id \in Range(map) THEN [kind |-> "CoverType", id |-> value.id]
  ELSE [kind |-> "other", id |-> 0]

instanceofCoverTypeUnchecked(value) == TRUE

\* value instanceof CoverType
instanceofCoverType(value) == value.kind = "CoverType"

\* Reading a property of something that is not an object with that property
\* chain throws a TypeError; so does indexing flags[MODULE_ID] when undefined.
Throws(f) == [flags |-> f, threw |-> TRUE, logged |-> FALSE]
Returns(f) == [flags |-> f, threw |-> FALSE, logged |-> FALSE]
LogsError(f) == [flags |-> f, threw |-> FALSE, logged |-> TRUE]

\* value.document.id: undefined (<< >>) when the document has no id, as
\* newCoverTypeData has none.
DocumentId(d) == IF "id" \in DOMAIN d THEN <<d.id>> ELSE << >>

\* set coverType(value)
setCoverType(f, value, map, doc) ==
  LET v == coverObjectsMapGet(value, map)
  IN IF ~instanceofCoverType(v) THEN LogsError(f)
     ELSE IF v.kind # "CoverType" \/ f = NoModuleFlags THEN Throws(f)
     ELSE Returns(<<[f[1] EXCEPT !.coverType = DocumentId(doc[v.id])]>>)

\* _addCoverType(coverType): the getter #coverTypesArray hands out a fresh
\* array when the flag is not set, and the push is lost with it.
addCoverType(f, value, map) ==
  LET v == coverObjectsMapGet(value, map)
  IN IF ~instanceofCoverType(v) THEN LogsError(f)
     ELSE IF v.kind # "CoverType" \/ f = NoModuleFlags THEN Throws(f)
     ELSE IF f[1].coverTypes = NoCoverTypesFlag THEN Returns(f)
     ELSE Returns(<<[f[1] EXCEPT !.coverTypes = <<Append(@[1], v.id)>>]>>)

\* ct.id of an element of the list: the elements are id strings, which have
\* no property id.
IdOfListElement(ct) == << >>

\* Array.prototype.findSplice: the first matching element is removed.
RECURSIVE findSplice(_, _)
findSplice(arr, wanted) ==
  IF arr = << >> THEN arr
  ELSE IF IdOfListElement(Head(arr)) = wanted THEN Tail(arr)
  ELSE <<Head(arr)>> \o findSplice(Tail(arr), wanted)

\* _removeCoverType(coverType)
removeCoverType(f, value, map) ==
  LET v == coverObjectsMapGet(value, map)
  IN IF ~instanceofCoverType(v) THEN LogsError(f)
     ELSE IF v.kind # "CoverType" \/ f = NoModuleFlags THEN Throws(f)
     ELSE IF f[1].coverTypes = NoCoverTypesFlag THEN Returns(f)
     ELSE Returns(<<[f[1] EXCEPT !.coverTypes = <<findSplice(@[1], <<v.id>>)>>]>>)

\* _removeAllCoverTypes(): this.#coverTypesArray.length = 0 empties the flag
\* array in place; when the flag is not set it empties the fresh array of
\* the getter.
removeAllCoverTypes(f) ==
  IF f = NoModuleFlags THEN Throws(f)
  ELSE IF f[1].coverTypes = NoCoverTypesFlag THEN Returns(f)
  ELSE Returns(<<[f[1] EXCEPT !.coverTypes = <<<< >>>>]>>)

EffectFlags ==
  {NoModuleFlags} \cup
    {<<[coverTypes |-> l, coverType |-> t]>> :
       l \in {NoCoverTypesFlag}
               \cup {<<a>> : a \in UNION {[1..n -> EffectIds] : n \in 0..MaxEffectTypes}},
       t \in {<< >>} \cup {<<i>> : i \in EffectIds}}

EffectCall(op, r, value) ==
  /\ flags' = r.flags
  /\ ret' = [op |-> op, value |-> value, threw |-> r.threw, logged |-> r.logged]
  /\ UNCHANGED <<catalogVars, orderVars, effects, queueVars, actorVars, polygonVars>>

SetCoverType(value) ==
  EffectCall("coverType", setCoverType(flags, value, coverObjectsMap, document), value)

AddCoverTypeToEffect(value) ==
  /\ IF flags = NoModuleFlags THEN TRUE
     ELSE IF flags[1].coverTypes = NoCoverTypesFlag THEN TRUE
     ELSE Len(flags[1].coverTypes[1]) < MaxEffectTypes
  /\ EffectCall("_addCoverType", addCoverType(flags, value, coverObjectsMap), value)

RemoveCoverTypeFromEffect(value) ==
  EffectCall("_removeCoverType", removeCoverType(flags, value, coverObjectsMap), value)

RemoveAllCoverTypes ==
  EffectCall("_removeAllCoverTypes", removeAllCoverTypes(flags), [kind |-> "other", id |-> 0])

\* The document of a CoverType is newCoverTypeData, which has no id, or a
\* document that carries the id of the CoverType.
InitEffect ==
  /\ \E n \in 0..MaxEffectIds : coverObjectsMap = [i \in 1..n |-> i]
  /\ document \in [EffectIds -> {newCoverTypeData} \cup
                      {mergeObject(newCoverTypeData, [id |-> i]) : i \in EffectIds}]
  /\ \A i \in EffectIds : DocumentId(document[i]) \in {<< >>, <<i>>}
  /\ storedIds = {}
  /\ settingsInFlight = 0
  /\ coverTypesModified = TRUE
  /\ coverTypesOrdered = << >>
  /\ coverTypesUnordered = << >>
  /\ effects = << >>
  /\ InitActor
  /\ InitNoPolygon
  /\ flags \in EffectFlags
  /\ sheet = "NONE"
  /\ renderQueue = << >>
  /\ task = NoTask
  /\ history = NoHistory
  /\ ret = [op |-> "init"]

NextEffect ==
  \/ \E value \in EffectValues : SetCoverType(value)
  \/ \E value \in EffectValues : AddCoverTypeToEffect(value)
  \/ \E value \in EffectValues : RemoveCoverTypeFromEffect(value)
  \/ RemoveAllCoverTypes

SpecEffect == InitEffect /\ [][NextEffect]_vars

EffectOps == {"coverType", "_addCoverType", "_removeCoverType"}

\* Neither a CoverType nor the id of a CoverType of the catalog.
InvalidValue(value) ==
  ~(\/ value.kind = "CoverType"
    \/ value.kind = "string" /\ value.id \in Range(coverObjectsMap))

\* C18: the coverType setter, _addCoverType and _removeCoverType, called with
\* a value that is neither a CoverType nor the id of a catalog CoverType, do
\* not throw and leave the effect's flags (its cover-type list among them)
\* and the CoverType catalog as they were.
C18_InvalidInputIsNoOp ==
  [][(ret'.op \in EffectOps /\ InvalidValue(ret'.value))
       => /\ ~ret'.threw
          /\ UNCHANGED <<flags, catalogVars, orderVars>>]_vars

\* _addCoverType was called with a string that is no id of the catalog on an
\* effect that has cover types.
C18_Witness ==
  /\ ret.op = "_addCoverType"
  /\ ret.value.kind = "string"
  /\ InvalidValue(ret.value)
  /\ ret.logged
  /\ flags # NoModuleFlags
  /\ flags[1].coverTypes # NoCoverTypesFlag
  /\ flags[1].coverTypes[1] # << >>
  /\ coverObjectsMap # << >>

\* The list l without the first element equal to id.
RECURSIVE WithoutFirst(_, _)
WithoutFirst(l, id) ==
  IF l = << >> THEN l
  ELSE IF Head(l) = id THEN Tail(l)
  ELSE <<Head(l)>> \o WithoutFirst(Tail(l), id)

\* The effect has a cover-type list and the id is in it.
InCoverTypesList(f, id) ==
  IF f = NoModuleFlags THEN FALSE
  ELSE IF f[1].coverTypes = NoCoverTypesFlag THEN FALSE
  ELSE id \in Range(f[1].coverTypes[1])

\* C29: _removeCoverType(ct), for a CoverType ct (or the id of a catalog
\* CoverType) whose id is in the effect's cover-type list, takes that id off
\* the list (its first occurrence, or every occurrence) and leaves the other
\* ids and the rest of the flags as they were.
C29_RemoveTakesIdOffList ==
  [][(ret'.op = "_removeCoverType" /\ ~InvalidValue(ret'.value)
        /\ InCoverTypesList(flags, ret'.value.id))
       => /\ ~ret'.threw
          /\ flags' # NoModuleFlags
          /\ flags'[1].coverType = flags[1].coverType
          /\ flags'[1].coverTypes # NoCoverTypesFlag
          /\ flags'[1].coverTypes[1] \in
               {WithoutFirst(flags[1].coverTypes[1], ret'.value.id),
                SelectSeq(flags[1].coverTypes[1], LAMBDA x : x # ret'.value.id)}]_vars

(***************************************************************************)
(* WallPoints3d.combineTerrainWalls                                        *)
(*                                                                         *)
(* A wall is known by its ground segment A -> B.  A projected silhouette   *)
(* is not computed: the region cut by intersectPaths is named by the two   *)
(* pieces of wall it comes from, and whether two walls' silhouettes        *)
(* overlap from the viewer is an input.  Coordinates are integers here and *)
(* doubles in the program: whether the doubles lose the denominator of the *)
(* intersection of two walls that cross is an input too.                   *)
(***************************************************************************)
MaxWalls == 3           \* terrain walls handed to combineTerrainWalls
MaxNotFound == 1        \* crossing pairs of one call whose intersection is not found

Pt(x, y) == [x |-> x, y |-> y]
Wall(a, b) == [A |-> a, B |-> b]

\* Seen from Pt(1, 0): a near and a far wall along x, two diagonals that
\* cross them and each other (one of them in both directions), a wall in
\* line with the viewer and a piece of the near wall.
WallSegments ==
  {Wall(Pt(0, 1), Pt(2, 1)), Wall(Pt(2, 2), Pt(0, 2)),
   Wall(Pt(0, 0), Pt(2, 2)), Wall(Pt(0, 2), Pt(2, 0)), Wall(Pt(2, 0), Pt(0, 2)),
   Wall(Pt(1, 1), Pt(1, 2)), Wall(Pt(0, 1), Pt(1, 1))}

ViewerLocs == {Pt(1, 0), Pt(0, 3)}

Null == << >>

Sign(n) == IF n > 0 THEN 1 ELSE IF n < 0 THEN -1 ELSE 0

\* foundry.utils.orient2dFast
orient2dFast(a, b, c) == (a.y - c.y) * (b.x - c.x) - (a.x - c.x) * (b.y - c.y)

ccw(a, b, c) == Sign(orient2dFast(a, b, c))

\* foundry.utils.lineLineIntersection: null for a segment of length 0 and
\* for a denominator of 0, which parallel lines give and, when `lost` says
\* so, the doubles; otherwise the point (xn / dnm, yn / dnm).
lineLineIntersection(a, b, c, d, lost) ==
  LET dnm == IF lost THEN 0
             ELSE (d.y - c.y) * (b.x - a.x) - (d.x - c.x) * (b.y - a.y)
      t0 == (d.x - c.x) * (a.y - c.y) - (d.y - c.y) * (a.x - c.x)
  IN IF a = b \/ c = d THEN Null
     ELSE IF dnm = 0 THEN Null
     ELSE <<[xn |-> a.x * dnm + t0 * (b.x - a.x),
             yn |-> a.y * dnm + t0 * (b.y - a.y),
             dnm |-> dnm]>>

\* A whole wall, or the part of it between one endpoint and the intersection:
\* wiA and wjC keep endpoint A, wiB and wjD keep endpoint B.
Piece(i, part) == [wall |-> i, part |-> part]

\* front.intersectPaths(back): no path when the silhouettes do not overlap.
intersectPaths(front, back, overlap) ==
  IF {front.wall, back.wall} \in overlap
  THEN {[front |-> front, back |-> back]} ELSE {}

handleTerrainWallsCrossByOwnSide(i, j, wi, wj, ccwABV, ccwCDV, overlap, notFound) ==
  LET ix == lineLineIntersection(wi.A, wi.B, wj.A, wj.B, {i, j} \in notFound)
      wjFront == IF ccwCDV = -1 THEN Piece(j, "B") ELSE Piece(j, "A")
      wjBack == IF ccwCDV = -1 THEN Piece(j, "A") ELSE Piece(j, "B")
      wiFront == IF ccwCDV = -1 THEN Piece(i, "A") ELSE Piece(i, "B")
      wiBack == IF ccwCDV = -1 THEN Piece(i, "B") ELSE Piece(i, "A")
  IN IF ix = Null THEN << >>
     ELSE <<[wiPath |-> intersectPaths(wjFront, wiBack, overlap),
             wjPath |-> intersectPaths(wiFront, wjBack, overlap)]>>

\* handleTerrainWallsCross: << >> is undefined, returned after the warning
\* that the walls cross but the intersection was not found.
handleTerrainWallsCross(i, j, wi, wj, ccwABV, ccwCDV, overlap, notFound) ==
  LET ix == lineLineIntersection(wi.A, wi.B, wj.A, wj.B, {i, j} \in notFound)
      wjFront == IF ccwABV = -1 THEN Piece(j, "B") ELSE Piece(j, "A")
      wjBack == IF ccwABV = -1 THEN Piece(j, "A") ELSE Piece(j, "B")
      wiFront == IF ccwCDV = -1 THEN Piece(i, "A") ELSE Piece(i, "B")
      wiBack == IF ccwCDV = -1 THEN Piece(i, "B") ELSE Piece(i, "A")
  IN IF ix = Null THEN << >>
     ELSE <<[wiPath |-> intersectPaths(wjFront, wiBack, overlap),
             wjPath |-> intersectPaths(wiFront, wjBack, overlap)]>>

WallsCollinearOrTouching(ccwABC, ccwABD) == ccwABC = 0 \/ ccwABD = 0

\* !(ccwABC || ccwABD)
WallsCollinear(ccwABC, ccwABD) == ~(ccwABC # 0 \/ ccwABD # 0)

\* The body of the two loops for walls i < j: the paths added to `combined`.
PairPaths(walls, viewerLoc, i, j, overlap, notFound) ==
  LET wi == walls[i]
      wj == walls[j]
      ccwABV == ccw(wi.A, wi.B, viewerLoc)
      ccwCDV == ccw(wj.A, wj.B, viewerLoc)
      ccwABC == ccw(wi.A, wi.B, wj.A)
      ccwABD == ccw(wi.A, wi.B, wj.B)
      ccwCDA == ccw(wj.A, wj.B, wi.A)
      ccwCDB == ccw(wj.A, wj.B, wi.B)
      whole(k) == Piece(k, "AB")
  IN IF ccwABV = 0 THEN {}
     ELSE IF ccwCDV = 0 THEN {}
     ELSE IF WallsCollinear(ccwABC, ccwABD) THEN {}
     ELSE IF ccwABC = ccwABD \/ ccwABD = 0 \/ ccwABC = 0
     THEN LET endpointCCW == IF ccwABC = 0 THEN ccwABD ELSE ccwABC
          IN IF endpointCCW = ccwABV
             THEN intersectPaths(whole(j), whole(i), overlap)
             ELSE intersectPaths(whole(i), whole(j), overlap)
     ELSE IF ccwCDA = ccwCDB \/ ccwCDA = 0 \/ ccwCDB = 0
     THEN LET endpointCCW == IF ccwCDA = 0 THEN ccwCDB ELSE ccwCDA
          IN IF endpointCCW = ccwCDV
             THEN intersectPaths(whole(i), whole(j), overlap)
             ELSE intersectPaths(whole(j), whole(i), overlap)
     ELSE LET res == handleTerrainWallsCross(i, j, wi, wj, ccwABV, ccwCDV, overlap,
                                             notFound)
          IN IF res = << >> THEN {} ELSE res[1].wiPath \cup res[1].wjPath

CombinedOrEmptyRegion(combined) == <<combined>>

\* if ( !combined.paths.length ) return null; otherwise the combined paths.
CombinedOrNull(combined) == IF combined = {} THEN Null ELSE <<combined>>

\* WallPoints3d.combineTerrainWalls
combineTerrainWalls(walls, viewerLoc, overlap, notFound) ==
  LET nWalls == Len(walls)
      pairs == {p \in (1..nWalls - 1) \X (2..nWalls) : p[1] < p[2]}
  IN CombinedOrNull(UNION {PairPaths(walls, viewerLoc, p[1], p[2], overlap, notFound) :
                             p \in pairs})

WallPairs(n) == {{i, j} : i, j \in 1..n} \ {{i} : i \in 1..n}

WallLists == UNION {[1..n -> WallSegments] : n \in 0..MaxWalls}

\* The ground segments cross in one point inside both: the endpoints of each
\* lie strictly on opposite sides of the other.
Crosses(wi, wj) ==
  /\ ccw(wi.A, wi.B, wj.A) * ccw(wi.A, wi.B, wj.B) < 0
  /\ ccw(wj.A, wj.B, wi.A) * ccw(wj.A, wj.B, wi.B) < 0

\* The pairs of walls lineLineIntersection can be asked about: those that
\* cross.
CrossingPairs(walls) ==
  {p \in WallPairs(Len(walls)) : \E i, j \in p : i < j /\ Crosses(walls[i], walls[j])}

\* The call WallPoints3d.combineTerrainWalls(walls, viewerLoc) that Init chose.
CombineTerrainWalls ==
  /\ ret.op = "init"
  /\ ret' = [ret EXCEPT !.op = "combineTerrainWalls",
                        !.result = combineTerrainWalls(ret.walls, ret.viewerLoc,
                                                       ret.overlap, ret.notFound)]
  /\ UNCHANGED <<catalogVars, orderVars, effects, extVars>>

InitWalls ==
  /\ coverObjectsMap = << >>
  /\ document = << >>
  /\ storedIds = {}
  /\ settingsInFlight = 0
  /\ coverTypesModified = FALSE
  /\ coverTypesOrdered = << >>
  /\ coverTypesUnordered = << >>
  /\ effects = << >>
  /\ InitExt
  /\ \E walls \in WallLists, viewerLoc \in ViewerLocs :
       \E overlap \in SUBSET WallPairs(Len(walls)),
          notFound \in {n \in SUBSET CrossingPairs(walls) : Cardinality(n) <= MaxNotFound} :
         ret = [op |-> "init", walls |-> walls, viewerLoc |-> viewerLoc,
                overlap |-> overlap, notFound |-> notFound, result |-> Null]

NextWalls == CombineTerrainWalls

SpecWalls == InitWalls /\ [][NextWalls]_vars

InLineWithViewer(w) == ccw(w.A, w.B, ret.viewerLoc) = 0

IndexPairs == {p \in (1..Len(ret.walls)) \X (1..Len(ret.walls)) : p[1] < p[2]}

\* The paths of the result that come from walls i and j.
PathsOfPair(i, j) ==
  IF ret.result = Null THEN {}
  ELSE {c \in ret.result[1] : {c.front.wall, c.back.wall} = {i, j}}

\* C19: combineTerrainWalls returns null for no wall and for a single wall,
\* and when no two walls interact: when no two walls overlap as seen from the
\* viewer or cross, as for two such walls and a viewer in line with neither.
C19_NullWithoutInteraction ==
  ret.op = "combineTerrainWalls" =>
    /\ Len(ret.walls) <= 1 => ret.result = Null
    /\ (\A p \in IndexPairs :
          /\ {p[1], p[2]} \notin ret.overlap
          /\ ~Crosses(ret.walls[p[1]], ret.walls[p[2]]))
         => ret.result = Null

\* Two walls that neither overlap nor cross, neither of them in line with the
\* viewer nor with the other wall.
C19_Witness ==
  /\ ret.op = "combineTerrainWalls"
  /\ Len(ret.walls) = 2
  /\ ~InLineWithViewer(ret.walls[1])
  /\ ~InLineWithViewer(ret.walls[2])
  /\ ccw(ret.walls[1].A, ret.walls[1].B, ret.walls[2].A) # 0
  /\ ~Crosses(ret.walls[1], ret.walls[2])
  /\ ret.overlap = {}
  /\ ret.result = Null

\* Walls i and j cross and no intersection point was found for them.
CrossWithoutIntersection(i, j) ==
  Crosses(ret.walls[i], ret.walls[j]) /\ {i, j} \in ret.notFound

Degenerate(i, j) ==
  LET wi == ret.walls[i]
      wj == ret.walls[j]
  IN \/ InLineWithViewer(wi)
     \/ InLineWithViewer(wj)
     \/ ccw(wi.A, wi.B, wj.A) = 0 /\ ccw(wi.A, wi.B, wj.B) = 0
     \/ CrossWithoutIntersection(i, j)

\* C20: a pair of walls of which one is in line with the viewer, or which are
\* in line with each other, or which cross without an intersection point
\* being found, adds nothing to the result, and every other pair is still
\* examined: when its silhouettes overlap its region is in the result.
C20_DegeneratePairsSkipped ==
  ret.op = "combineTerrainWalls" =>
    \A p \in IndexPairs :
      IF Degenerate(p[1], p[2]) THEN PathsOfPair(p[1], p[2]) = {}
      ELSE ({p[1], p[2]} \in ret.overlap) => PathsOfPair(p[1], p[2]) # {}

\* No wall is in line with the viewer and all silhouettes overlap; the first
\* and the second wall cross and their intersection is not found, the first
\* and the third are in line with each other: these two pairs add nothing,
\* and the region of the second and the third wall is in the result.
C20_Witness ==
  /\ ret.op = "combineTerrainWalls"
  /\ Len(ret.walls) = 3
  /\ ret.overlap = WallPairs(3)
  /\ \A k \in 1..3 : ~InLineWithViewer(ret.walls[k])
  /\ CrossWithoutIntersection(1, 2)
  /\ ccw(ret.walls[1].A, ret.walls[1].B, ret.walls[3].A) = 0
  /\ ccw(ret.walls[1].A, ret.walls[1].B, ret.walls[3].B) = 0
  /\ ~Degenerate(2, 3)
  /\ PathsOfPair(1, 2) = {}
  /\ PathsOfPair(1, 3) = {}
  /\ PathsOfPair(2, 3) # {}

(***************************************************************************)
(* PIXI.Polygon utilities: iteratePoints, iterateEdges, viewablePoints,    *)
(* isClockwise, reverseOrientation                                         *)
(*                                                                         *)
(* A polygon is its flat array `points` = x0, y0, x1, y1, ...; JavaScript  *)
(* index i is index i + 1 here.  Keys are JavaScript indices, from 0.      *)
(* viewablePoints is taken with returnKeys = true.  iteratePoints and      *)
(* iterateEdges are generators: the call makes the generator object and    *)
(* runs none of the body, each next() runs the body to its next yield and  *)
(* reads this.points as it is then.                                        *)
(***************************************************************************)
MaxVertices == 5        \* vertices of the polygons handed to the utilities
MaxReversals == 1       \* calls of reverseOrientation while one generator is in use

\* Simple polygons: a triangle, a square, a quadrilateral with a reflex
\* vertex, an M with two peaks and a valley between them, and a hexagon.
PolygonShapes ==
  {<<Pt(0, 0), Pt(2, 0), Pt(1, 2)>>,
   <<Pt(1, 1), Pt(3, 1), Pt(3, 3), Pt(1, 3)>>,
   <<Pt(0, 0), Pt(2, 1), Pt(4, 0), Pt(2, 3)>>,
   <<Pt(0, 0), Pt(1, 2), Pt(2, 1), Pt(3, 3), Pt(4, 0)>>,
   <<Pt(1, 0), Pt(3, 0), Pt(4, 2), Pt(3, 4), Pt(1, 4), Pt(0, 2)>>}

Origins == {Pt(-2, 2), Pt(2, -2), Pt(6, 1), Pt(-1, 5)}

Rotate(s, r) == [k \in 1..Len(s) |-> s[((k - 1 + r) % Len(s)) + 1]]

\* The flat array of a vertex list; stored closed, the first vertex is
\* repeated at the end.
Flat(s) == [k \in 1..(2 * Len(s)) |-> IF k % 2 = 1 THEN s[(k + 1) \div 2].x
                                                    ELSE s[k \div 2].y]

PolygonPoints ==
  {Flat(IF closed THEN Append(Rotate(s, r), Rotate(s, r)[1]) ELSE Rotate(s, r)) :
     <<s, r, closed>> \in {t \in PolygonShapes \X (0..MaxVertices) \X BOOLEAN :
                             Len(t[1]) <= MaxVertices /\ t[2] < Len(t[1])}}

\* PIXI.Polygon.prototype.isClosed: the last point repeats the first.
isClosed(points) ==
  LET ln == Len(points)
  IN IF ln < 4 THEN FALSE
     ELSE points[1] = points[ln - 1] /\ points[2] = points[ln]

\* new PIXI.Point(this.points[i], this.points[i + 1]) for JavaScript index i
PointAt(points, i) == Pt(points[i + 1], points[i + 2])

\* The generator object that iteratePoints({close}) or iterateEdges({close})
\* returns: pc is "start" until the first next(), "yield" while the body is
\* suspended at the yield of its loop, "close" while it is suspended at the
\* closing yield of iterateEdges, "done" after it returned.
NewGenerator(kind, close) ==
  [NoIterator EXCEPT !.kind = kind, !.close = close, !.pc = "start"]

\* One next() of an iteratePoints generator, this.points being `points`.
iteratePointsNext(it, points) ==
  LET dropped == IF ~isClosed(points) \/ it.close THEN 0 ELSE 2
      ln == IF it.pc = "start" THEN Len(points) - dropped ELSE it.ln
      i == IF it.pc = "start" THEN 0 ELSE it.i + 2
  IN IF i < ln
     THEN [it EXCEPT !.pc = "yield", !.ln = ln, !.i = i,
                     !.value = <<PointAt(points, i)>>]
     ELSE [it EXCEPT !.pc = "done", !.ln = ln, !.i = i, !.value = << >>]

\* One next() of an iterateEdges generator: `iter` is computed and not used,
\* the loop runs to ln.  On resuming from the yield of the loop, A = B.
iterateEdgesNext(it, points) ==
  LET ln == IF it.pc = "start" THEN Len(points) ELSE it.ln
      firstA == IF it.pc = "start" THEN PointAt(points, 0) ELSE it.firstA
      A == IF it.pc = "start" THEN firstA ELSE it.B
      i == IF it.pc = "start" THEN 2 ELSE it.i + 2
  IN IF it.pc = "close" \/ (it.pc = "start" /\ ln < 4)
     THEN [it EXCEPT !.pc = "done", !.ln = ln, !.value = << >>]
     ELSE IF i < ln
     THEN LET B == PointAt(points, i)
          IN [it EXCEPT !.pc = "yield", !.ln = ln, !.i = i, !.firstA = firstA,
                        !.A = A, !.B = B, !.value = <<[A |-> A, B |-> B]>>]
     ELSE IF it.close
     THEN [it EXCEPT !.pc = "close", !.i = i, !.A = A, !.B = firstA,
                     !.value = <<[A |-> A, B |-> firstA]>>]
     ELSE [it EXCEPT !.pc = "done", !.i = i, !.A = A, !.value = << >>]

generatorNext(it, points) ==
  IF it.kind = "iteratePoints" THEN iteratePointsNext(it, points)
  ELSE iterateEdgesNext(it, points)

\* [...generator] and for ( const v of generator ): every next() in one
\* piece, this.points staying `points`.
RECURSIVE Spread(_, _, _)
Spread(it, points, values) ==
  LET after == generatorNext(it, points)
  IN IF after.pc = "done" THEN values
     ELSE Spread(after, points, values \o after.value)

\* [...this.iteratePoints({close})]
iteratePoints(points, close) ==
  Spread(NewGenerator("iteratePoints", close), points, << >>)

\* The edges that for ( const edge of this.iterateEdges({close}) ) goes through
iterateEdges(points, close) ==
  Spread(NewGenerator("iterateEdges", close), points, << >>)

\* reverseOrientation: the new array of this.points
reverseOrientation(points) ==
  LET ln == Len(points) - 2
  IN [k \in 1..(2 * (Len(points) \div 2)) |->
        points[(ln - 2 * ((k - 1) \div 2)) + (IF k % 2 = 1 THEN 0 ELSE 1) + 1]]

\* foundry.utils.lineSegmentIntersects
lineSegmentIntersects(a, b, c, d) ==
  LET xa == orient2dFast(a, b, c)
      xb == orient2dFast(a, b, d)
      xab == xa * xb <= 0
      xcd == orient2dFast(c, d, a) * orient2dFast(c, d, b) <= 0
  IN IF xa = 0 /\ xb = 0 THEN FALSE ELSE xab /\ xcd

\* The inner loop of viewablePoints over this.iterateEdges()
IsKey(origin, pt, edges) ==
  \A e \in 1..Len(edges) :
    \/ edges[e].A = pt
    \/ edges[e].B = pt
    \/ ~lineSegmentIntersects(origin, pt, edges[e].A, edges[e].B)

NoKeys == [startKeys |-> << >>, endKeys |-> << >>, foundNonKeyFirst |-> FALSE,
           foundNonKeyAfter |-> FALSE, foundKey |-> FALSE]

\* The outer loop of viewablePoints from JavaScript index i on.
RECURSIVE ViewableLoop(_, _, _, _, _)
ViewableLoop(pts, edges, origin, i, st) ==
  IF i >= Len(pts) THEN st
  ELSE IF IsKey(origin, pts[i + 1], edges)
       THEN ViewableLoop(pts, edges, origin, i + 1,
              [st EXCEPT !.foundKey = TRUE,
                         !.startKeys = IF ~st.foundNonKeyAfter THEN Append(@, i) ELSE @,
                         !.endKeys = IF st.foundNonKeyAfter THEN Append(@, i) ELSE @])
       ELSE LET after == [st EXCEPT !.foundNonKeyFirst = @ \/ ~st.foundKey,
                                    !.foundNonKeyAfter = @ \/ st.foundKey]
            IN IF after.foundNonKeyFirst /\ after.foundKey THEN after
               ELSE ViewableLoop(pts, edges, origin, i + 1, after)

UndefinedKey == 0 - 1   \* keys[0] of an empty array

\* viewablePoints(origin, {returnKeys: true, outermostOnly})
viewablePoints(points, origin, outermostOnly) ==
  LET pts == iteratePoints(points, FALSE)
      st == ViewableLoop(pts, iterateEdges(points, TRUE), origin, 0, NoKeys)
      keys == st.endKeys \o st.startKeys
  IN IF ~outermostOnly THEN keys
     ELSE IF Len(keys) = 0 THEN <<UndefinedKey, UndefinedKey>>
     ELSE <<keys[1], keys[Len(keys)]>>

\* polygon.viewablePoints(origin, {returnKeys: true, outermostOnly}): the
\* generators it makes are its own and it runs them to their end.
ViewablePoints ==
  /\ \E origin \in Origins, outermostOnly \in BOOLEAN :
       ret' = [op |-> "viewablePoints", points |-> thisPoints, origin |-> origin,
               flag |-> outermostOnly,
               result |-> viewablePoints(thisPoints, origin, outermostOnly)]
  /\ UNCHANGED <<catalogVars, orderVars, effects, effectVars, queueVars, actorVars,
                 polygonVars>>

\* polygon.iterateEdges({close}): the generator is made, its body waits.
IterateEdges ==
  /\ \E close \in BOOLEAN : iterator' = NewGenerator("iterateEdges", close)
  /\ yielded' = NothingYielded
  /\ UNCHANGED <<catalogVars, orderVars, effects, effectVars, queueVars, actorVars,
                 thisPoints, isClockwiseCached, ret>>

\* polygon.iteratePoints({close})
IteratePoints ==
  /\ \E close \in BOOLEAN : iterator' = NewGenerator("iteratePoints", close)
  /\ yielded' = NothingYielded
  /\ UNCHANGED <<catalogVars, orderVars, effects, effectVars, queueVars, actorVars,
                 thisPoints, isClockwiseCached, ret>>

\* generator.next() of the generator in use, until it is done.
GeneratorNext ==
  /\ iterator.pc # "done"
  /\ iterator' = generatorNext(iterator, thisPoints)
  /\ yielded' = [yielded EXCEPT !.values = @ \o iterator'.value]
  /\ UNCHANGED <<catalogVars, orderVars, effects, effectVars, queueVars, actorVars,
                 thisPoints, isClockwiseCached, ret>>

\* polygon.reverseOrientation(): this.points is replaced, a cached
\* orientation is flipped.
ReverseOrientation ==
  /\ yielded.reversed < MaxReversals
  /\ thisPoints' = reverseOrientation(thisPoints)
  /\ isClockwiseCached' = IF isClockwiseCached = << >> THEN << >>
                          ELSE <<~isClockwiseCached[1]>>
  /\ yielded' = [yielded EXCEPT !.reversed = @ + 1]
  /\ UNCHANGED <<catalogVars, orderVars, effects, effectVars, queueVars, actorVars,
                 iterator, ret>>

\* polygon.isClockwise: the answer of ClipperLib.Clipper.Orientation is kept
\* the first time, and returned from then on.
IsClockwise ==
  /\ \E orientation \in BOOLEAN :
       isClockwiseCached' = IF isClockwiseCached = << >> THEN <<orientation>>
                            ELSE isClockwiseCached
  /\ ret' = [op |-> "isClockwise", result |-> isClockwiseCached']
  /\ UNCHANGED <<catalogVars, orderVars, effects, effectVars, queueVars, actorVars,
                 thisPoints, iterator, yielded>>

\* A polygon as constructed: no orientation cached, no generator made.
InitPolygon ==
  /\ coverObjectsMap = << >>
  /\ document = << >>
  /\ storedIds = {}
  /\ settingsInFlight = 0
  /\ coverTypesModified = FALSE
  /\ coverTypesOrdered = << >>
  /\ coverTypesUnordered = << >>
  /\ effects = << >>
  /\ InitActor
  /\ flags = NoModuleFlags
  /\ sheet = "NONE"
  /\ renderQueue = << >>
  /\ task = NoTask
  /\ history = NoHistory
  /\ thisPoints \in PolygonPoints
  /\ isClockwiseCached = << >>
  /\ iterator = NoIterator
  /\ yielded = NothingYielded
  /\ ret = [op |-> "init", points |-> thisPoints, origin |-> NoPoint, flag |-> FALSE,
            result |-> << >>]

\* viewablePoints makes the generators it runs and leaves none behind, and
\* a generator in use keeps its locals to itself: the calls that look at the
\* polygon from an origin, and the use of one generator, are gone through
\* apart, each with the calls that change the polygon.
NextPolygon ==
  \/ ViewablePoints
  \/ ReverseOrientation
  \/ IsClockwise

SpecPolygon == InitPolygon /\ [][NextPolygon]_vars

NextGenerator ==
  \/ IterateEdges
  \/ IteratePoints
  \/ GeneratorNext
  \/ ReverseOrientation
  \/ IsClockwise

SpecGenerator == InitPolygon /\ [][NextGenerator]_vars

Min(a, b) == IF a < b THEN a ELSE b

\* Point p, in line with a and b, lies on the segment from a to b.
Between(a, b, p) ==
  /\ Min(a.x, b.x) <= p.x /\ p.x <= Max(a.x, b.x)
  /\ Min(a.y, b.y) <= p.y /\ p.y <= Max(a.y, b.y)

\* The segments a-b and c-d have a point in common.
SegmentsMeet(a, b, c, d) ==
  LET o1 == ccw(a, b, c)
      o2 == ccw(a, b, d)
      o3 == ccw(c, d, a)
      o4 == ccw(c, d, b)
  IN \/ o1 * o2 < 0 /\ o3 * o4 < 0
     \/ o1 = 0 /\ Between(a, b, c)
     \/ o2 = 0 /\ Between(a, b, d)
     \/ o3 = 0 /\ Between(c, d, a)
     \/ o4 = 0 /\ Between(c, d, b)

\* The vertices of the polygon in `points`, the closing repetition left out.
Vertices(points) ==
  LET n == Len(points) \div 2
      m == IF isClosed(points) THEN n - 1 ELSE n
  IN [k \in 1..m |-> Pt(points[2 * k - 1], points[2 * k])]

\* Vertex k (from 0) is a key point: the segment from the origin to it meets
\* no edge of the polygon but the two that end in it.
KeyPoint(vs, origin, k) ==
  LET n == Len(vs)
  IN \A e \in 0..(n - 1) :
       \/ e = k
       \/ (e + 1) % n = k
       \/ ~SegmentsMeet(origin, vs[k + 1], vs[e + 1], vs[((e + 1) % n) + 1])

RECURSIVE Ascending(_)
Ascending(S) ==
  IF S = {} THEN << >>
  ELSE LET least == CHOOSE x \in S : \A y \in S : x <= y
       IN <<least>> \o Ascending(S \ {least})

\* `res` lists the key points K of n vertices in the order of the vertex
\* cycle: it is the ascending list of K begun at one of its elements, at the
\* start of the run that goes around the end of the array when there is one,
\* and at the least key when the keys are one run inside the array.
InVertexOrder(res, K, n) ==
  LET asc == Ascending(K)
      wraps == {0, n - 1} \subseteq K /\ K # 0..(n - 1)
      oneRun == K # {} /\ \A k \in K : \A j \in K : \A i \in k..j : i \in K
  IN /\ \E r \in 0..Len(asc) : res = Rotate(asc, r)
     /\ oneRun => res = asc
     /\ wraps => /\ (res[1]..(n - 1)) \subseteq K
                 /\ (res[1] - 1) \notin K

\* C22: viewablePoints returns exactly the key points of the polygon, each
\* once, in vertex order with the run that wraps around the end of the array
\* first; with outermostOnly, the first and the last of that sequence.
C22_ViewablePointsAreKeyPoints ==
  ret.op = "viewablePoints" =>
    LET vs == Vertices(ret.points)
        K == {k \in 0..(Len(vs) - 1) : KeyPoint(vs, ret.origin, k)}
    IN IF ~ret.flag THEN InVertexOrder(ret.result, K, Len(vs))
       ELSE \E keys \in [1..Cardinality(K) -> K] :
              /\ InVertexOrder(keys, K, Len(vs))
              /\ K # {} => ret.result = <<keys[1], keys[Len(keys)]>>

\* C24: iterateEdges yields a chain, each edge's B being the next edge's A;
\* of a polygon stored closed the closing repetition is ignored, so that n
\* vertices give n edges with close (the last from the last vertex to the
\* first) and n - 1 without; and no edge has A = B.  Stated of a generator
\* run to its end while this.points stayed what it was.
C24_EdgesChainWithoutClosingDuplicate ==
  (iterator.kind = "iterateEdges" /\ iterator.pc = "done" /\ yielded.reversed = 0) =>
    LET edges == yielded.values
        vs == Vertices(thisPoints)
        n == Len(vs)
    IN /\ \A k \in 1..(Len(edges) - 1) : edges[k].B = edges[k + 1].A
       /\ isClosed(thisPoints) =>
            /\ Len(edges) = IF iterator.close THEN n ELSE n - 1
            /\ iterator.close => edges[Len(edges)] = [A |-> vs[n], B |-> vs[1]]
       /\ \A k \in 1..Len(edges) : edges[k].A # edges[k].B

(***************************************************************************)
(* PIXI.Polygon.convexhull                                                 *)
(***************************************************************************)
MaxHullPoints == 4      \* points handed to convexhull

\* The points lie on a grid of three by three.
HullGrid == {Pt(x, y) : x, y \in 0..2}

PointLists == UNION {[1..n -> HullGrid] : n \in 0..MaxHullPoints}

convexHullCmpFn(a, b) ==
  LET dx == a.x - b.x
  IN IF dx # 0 THEN dx ELSE a.y - b.y

\* newPoints.sort(convexHullCmpFn)
RECURSIVE Insert(_, _)
Insert(sorted, p) ==
  IF sorted = << >> THEN <<p>>
  ELSE IF convexHullCmpFn(p, Head(sorted)) < 0 THEN <<p>> \o sorted
  ELSE <<Head(sorted)>> \o Insert(Tail(sorted), p)

RECURSIVE Sort(_)
Sort(points) ==
  IF points = << >> THEN << >>
  ELSE Insert(Sort(SubSeq(points, 1, Len(points) - 1)), points[Len(points)])

PopsHullPointStrict(r, q, p) ==
  (q.x - r.x) * (p.y - r.y) > (q.y - r.y) * (p.x - r.x)

\* The test of testHullPoint's loop, q the last and r the last but one point
\* of the hull.
PopsHullPoint(r, q, p) ==
  (q.x - r.x) * (p.y - r.y) >= (q.y - r.y) * (p.x - r.x)

Pop(hull) == SubSeq(hull, 1, Len(hull) - 1)

RECURSIVE testHullPoint(_, _)
testHullPoint(hull, p) ==
  IF Len(hull) >= 2 /\ PopsHullPoint(hull[Len(hull) - 1], hull[Len(hull)], p)
  THEN testHullPoint(Pop(hull), p)
  ELSE Append(hull, p)

\* testHullPoint(hull, newPoints[i]) for i = from, from + step, ..., to
RECURSIVE HullOver(_, _, _, _, _)
HullOver(hull, newPoints, from, to, step) ==
  IF (step > 0 /\ from > to) \/ (step < 0 /\ from < to) THEN hull
  ELSE HullOver(testHullPoint(hull, newPoints[from]), newPoints, from + step, to, step)

\* convexhull(points): the array itself for at most one point, otherwise
\* the points of the new polygon.
convexhull(points) ==
  LET ln == Len(points)
      newPoints == Sort(points)
      upperHull == Pop(HullOver(<< >>, newPoints, 1, ln, 1))
      lowerHull == Pop(HullOver(<< >>, newPoints, ln, 1, 0 - 1))
  IN IF ln <= 1 THEN points
     ELSE IF Len(upperHull) = 1 /\ Len(lowerHull) = 1 /\ upperHull[1] = lowerHull[1]
     THEN upperHull
     ELSE upperHull \o lowerHull

\* The call PIXI.Polygon.convexhull(points) on the points that Init chose.
Convexhull ==
  /\ ret.op = "init"
  /\ ret' = [ret EXCEPT !.op = "convexhull", !.result = convexhull(ret.points)]
  /\ UNCHANGED <<catalogVars, orderVars, effects, extVars>>

InitHull ==
  /\ coverObjectsMap = << >>
  /\ document = << >>
  /\ storedIds = {}
  /\ settingsInFlight = 0
  /\ coverTypesModified = FALSE
  /\ coverTypesOrdered = << >>
  /\ coverTypesUnordered = << >>
  /\ effects = << >>
  /\ InitExt
  /\ \E points \in PointLists : ret = [op |-> "init", points |-> points, result |-> << >>]

NextHull == Convexhull

SpecHull == InitHull /\ [][NextHull]_vars

\* The vertex after vertex k of the polygon `hull`.
After(hull, k) == hull[(k % Len(hull)) + 1]

\* The polygon turns the same way, and does turn, at every vertex.
Convex(hull) ==
  \E way \in {0 - 1, 1} :
    \A k \in 1..Len(hull) : ccw(hull[k], After(hull, k), After(hull, k + 1)) = way

\* Point p is inside or on the boundary of `hull`: a point, a segment, or a
\* convex polygon, where p is not on the outer side of any edge.
Contains(hull, p) ==
  IF Len(hull) = 0 THEN FALSE
  ELSE IF Len(hull) = 1 THEN p = hull[1]
  ELSE IF Len(hull) = 2 THEN ccw(hull[1], hull[2], p) = 0 /\ Between(hull[1], hull[2], p)
  ELSE /\ Convex(hull)
       /\ \E way \in {0 - 1, 1} :
            \A k \in 1..Len(hull) : ccw(hull[k], After(hull, k), p) \in {0, way}

\* C23: the vertices of convexhull(points) are points of the input, every
\* point of the input is inside the polygon or on its boundary, no vertex is
\* repeated, no vertex lies on the segment between two others, and for one
\* point the result is that point.
C23_HullOfInputContainsInput ==
  ret.op = "convexhull" =>
    LET hull == ret.result
        input == Range(ret.points)
    IN /\ Range(hull) \subseteq input
       /\ \A p \in input : Contains(hull, p)
       /\ IsInjective(hull)
       /\ \A i, j, k \in 1..Len(hull) :
            (i # k /\ j # k /\ i # j) =>
              ~(ccw(hull[i], hull[j], hull[k]) = 0 /\ Between(hull[i], hull[j], hull[k]))
       /\ Len(ret.points) = 1 => hull = ret.points

\* Four points, one of them between two others and one repeated or inside:
\* the hull is a triangle or a segment that leaves them out.
C23_Witness ==
  /\ ret.op = "convexhull"
  /\ Len(ret.points) = 4
  /\ \E i, j, k \in 1..4 :
       /\ ret.points[i] # ret.points[k] /\ ret.points[j] # ret.points[k]
       /\ ccw(ret.points[i], ret.points[j], ret.points[k]) = 0
       /\ Between(ret.points[i], ret.points[j], ret.points[k])
       /\ ret.points[k] \notin Range(ret.result)
  /\ Len(ret.result) = 3

(***************************************************************************)
(* C25: the value returned by replaceCoverTypes                            *)
(***************************************************************************)
\* C25: replaceCoverTypes returns a truthy value when the token's effect list
\* after the call differs from the list before it, and a falsy value when
\* the list is unchanged.
C25_TruthyIffEffectsChanged ==
  ret.op = "replaceCoverTypes" => (IsTruthy(ret.value) <=> effects # ret.before)

(***************************************************************************)
(* handleTerrainWallsCross on two walls that cross                         *)
(***************************************************************************)
MaxCrossCoordinate == 2 \* the walls' endpoints lie on the grid 0..MaxCrossCoordinate

CrossGrid == {Pt(x, y) : x, y \in 0..MaxCrossCoordinate}

CrossViewers == {Pt(x, y) : x, y \in (0 - 1)..(MaxCrossCoordinate + 1)}

\* The arguments combineTerrainWalls hands over (part_001:108-109): two walls
\* that strictly cross and the two signs, neither of them 0.  The walls are
\* split at their intersection point, which is found.
CrossInputs ==
  {in \in [wi : [A : CrossGrid, B : CrossGrid], wj : [A : CrossGrid, B : CrossGrid],
           viewerLoc : CrossViewers] :
     /\ ccw(in.wi.A, in.wi.B, in.wj.A) * ccw(in.wi.A, in.wi.B, in.wj.B) < 0
     /\ ccw(in.wj.A, in.wj.B, in.wi.A) * ccw(in.wj.A, in.wj.B, in.wi.B) < 0
     /\ ccw(in.wi.A, in.wi.B, in.viewerLoc) # 0
     /\ ccw(in.wj.A, in.wj.B, in.viewerLoc) # 0}

\* The call handleTerrainWallsCross(wi, wj, ccwABV, ccwCDV) that Init chose,
\* wi being wall 1 and wj wall 2.
HandleTerrainWallsCross ==
  /\ ret.op = "init"
  /\ ret' = [ret EXCEPT
       !.op = "handleTerrainWallsCross",
       !.result = handleTerrainWallsCross(1, 2, ret.walls[1], ret.walls[2],
                    ccw(ret.walls[1].A, ret.walls[1].B, ret.viewerLoc),
                    ccw(ret.walls[2].A, ret.walls[2].B, ret.viewerLoc), ret.overlap,
                    ret.notFound)]
  /\ UNCHANGED <<catalogVars, orderVars, effects, extVars>>

InitCross ==
  /\ coverObjectsMap = << >>
  /\ document = << >>
  /\ storedIds = {}
  /\ settingsInFlight = 0
  /\ coverTypesModified = FALSE
  /\ coverTypesOrdered = << >>
  /\ coverTypesUnordered = << >>
  /\ effects = << >>
  /\ InitExt
  /\ \E in \in CrossInputs, overlap \in SUBSET WallPairs(2) :
       ret = [op |-> "init", walls |-> <<in.wi, in.wj>>, viewerLoc |-> in.viewerLoc,
              overlap |-> overlap, notFound |-> {}, result |-> << >>]

NextCross == HandleTerrainWallsCross

SpecCross == InitCross /\ [][NextCross]_vars

\* The half of a wall is known by the wall and the endpoint it keeps.
Half(walls, piece) ==
  [wall |-> piece.wall,
   end |-> IF piece.part = "A" THEN walls[piece.wall].A ELSE walls[piece.wall].B]

\* The regions of a result, each as the two halves it is the intersection of.
RegionsOf(walls, res) ==
  {{Half(walls, c.front), Half(walls, c.back)} : c \in res[1].wiPath \cup res[1].wjPath}

\* The half of wall w whose endpoint lies on the viewer's side of the other
\* wall, and the other half.
NearHalf(walls, w, other, viewerLoc) ==
  LET side == ccw(walls[other].A, walls[other].B, viewerLoc)
  IN [wall |-> w,
      end |-> IF ccw(walls[other].A, walls[other].B, walls[w].A) = side
              THEN walls[w].A ELSE walls[w].B]

FarHalf(walls, w, other, viewerLoc) ==
  LET near == NearHalf(walls, w, other, viewerLoc)
  IN [wall |-> w, end |-> IF near.end = walls[w].A THEN walls[w].B ELSE walls[w].A]

NearWithFar(walls, viewerLoc, overlap) ==
  IF {1, 2} \in overlap
  THEN {{NearHalf(walls, 1, 2, viewerLoc), FarHalf(walls, 2, 1, viewerLoc)},
        {FarHalf(walls, 1, 2, viewerLoc), NearHalf(walls, 2, 1, viewerLoc)}}
  ELSE {}

Swapped(w) == Wall(w.B, w.A)

\* The regions handleTerrainWallsCross computes for these walls.
CrossRegions(walls, viewerLoc, overlap) ==
  RegionsOf(walls, handleTerrainWallsCross(1, 2, walls[1], walls[2],
                     ccw(walls[1].A, walls[1].B, viewerLoc),
                     ccw(walls[2].A, walls[2].B, viewerLoc), overlap, {}))

\* C26: for two walls that cross, handleTerrainWallsCross intersects the
\* near half of wi with the far half of wj and the far half of wi with the
\* near half of wj, the near half of a wall being the one whose endpoint is on
\* the viewer's side of the other wall; this for every combination of the two
\* signs, and the same regions come out when the endpoints of wi or of wj
\* are given in the other order.
C26_NearHalvesCutFarHalves ==
  ret.op = "handleTerrainWallsCross" =>
    LET wi == ret.walls[1]
        wj == ret.walls[2]
    IN /\ ret.result # << >>
       /\ RegionsOf(ret.walls, ret.result) = NearWithFar(ret.walls, ret.viewerLoc, ret.overlap)
       /\ \A walls \in {<<Swapped(wi), wj>>, <<wi, Swapped(wj)>>, <<Swapped(wi), Swapped(wj)>>} :
            CrossRegions(walls, ret.viewerLoc, ret.overlap) = RegionsOf(ret.walls, ret.result)

\* The viewer is clockwise of wi and counterclockwise of wj, the silhouettes
\* overlap, and the two regions are there.
C26_Witness ==
  /\ ret.op = "handleTerrainWallsCross"
  /\ ccw(ret.walls[1].A, ret.walls[1].B, ret.viewerLoc) = 0 - 1
  /\ ccw(ret.walls[2].A, ret.walls[2].B, ret.viewerLoc) = 1
  /\ {1, 2} \in ret.overlap
  /\ Cardinality(RegionsOf(ret.walls, ret.result)) = 2

(***************************************************************************)
(* Cover effects locally on an actor: addToActorLocally,                   *)
(* removeFromActorLocally, replaceLocalEffectsOnActor                      *)
(*                                                                         *)
(* coverObjectsMap is CoverEffect.coverObjectsMap here.  A call is         *)
(* followed through a record: the local effects, the linked document ids,  *)
(* the number of refreshActorCoverEffect calls, whether a TypeError left    *)
(* the call, and the value returned (<< >> is undefined, <<b>> is the      *)
(* boolean b).                                                             *)
(***************************************************************************)
MaxLocalEffects == 2    \* cover effects in CoverEffect.coverObjectsMap

LocalEffectIds == 1..MaxLocalEffects

\* this.constructor.documentIds: the class has _documentIds and no
\* documentIds, so the property is undefined (<< >>).
documentIds == << >>

\* _localEffectOnActor, _addToActorLocally and _removeFromActorLocally of the
\* child class: the effect is on the actor; it is put there under a new
\* document id; it is taken away and the ids of its documents are returned.
localEffectOnActor(ce, local) == ce \in local

addedToActorLocally(ce, local) == [local |-> local \cup {ce}, newId |-> <<ce>>]

removedFromActorLocally(ce, local) == [local |-> local \ {ce}, removedIds |-> <<ce>>]

Call(local, tracked) ==
  [local |-> local, tracked |-> tracked, refreshes |-> 0, threw |-> FALSE, value |-> << >>]

\* CoverEffect#addToActorLocally(actor, update)
addToActorLocally(ce, st, update) ==
  IF localEffectOnActor(ce, st.local) THEN [st EXCEPT !.value = <<FALSE>>]
  ELSE LET added == addedToActorLocally(ce, st.local)
       IN IF added.newId = << >> THEN [st EXCEPT !.local = added.local, !.value = <<FALSE>>]
          ELSE [st EXCEPT !.local = added.local,
                          !.tracked = @ \cup {added.newId[1]},
                          !.refreshes = IF update THEN @ + 1 ELSE @,
                          !.value = <<TRUE>>]

\* CoverEffect#removeFromActorLocally(actor, update)
removeFromActorLocally(ce, st, update) ==
  IF ~localEffectOnActor(ce, st.local) THEN [st EXCEPT !.value = <<FALSE>>]
  ELSE LET removed == removedFromActorLocally(ce, st.local)
       IN IF Len(removed.removedIds) = 0
          THEN [st EXCEPT !.local = removed.local, !.value = <<FALSE>>]
          ELSE IF documentIds = << >>
          THEN [st EXCEPT !.local = removed.local, !.threw = TRUE, !.value = << >>]
          ELSE [st EXCEPT !.local = removed.local,
                          !.tracked = @ \ Range(removed.removedIds),
                          !.refreshes = IF update THEN @ + 1 ELSE @,
                          !.value = <<TRUE>>]

\* previousEffects.forEach(ce => ce.removeFromActorLocally(actor, false))
RECURSIVE RemoveEachLocally(_, _)
RemoveEachLocally(ces, st) ==
  IF ces = << >> \/ st.threw THEN st
  ELSE RemoveEachLocally(Tail(ces), removeFromActorLocally(Head(ces), st, FALSE))

\* coverEffects.forEach(ce => ce.addToActorLocally(actor, false))
RECURSIVE AddEachLocally(_, _)
AddEachLocally(ces, st) ==
  IF ces = << >> \/ st.threw THEN st
  ELSE AddEachLocally(Tail(ces), addToActorLocally(Head(ces), st, FALSE))

\* CoverEffect._allLocalEffectsOnActor, in the order of the map
allLocalEffectsOnActor(map, local) == SelectSeq(map, LAMBDA ce : localEffectOnActor(ce, local))

\* CoverEffect.replaceLocalEffectsOnActor; coverEffects in the iteration
\* order of the Set.  No path returns a value.
replaceLocalEffectsOnActor(coverEffects, map, st) ==
  LET previousEffects == allLocalEffectsOnActor(map, st.local)
      toRemove == Range(previousEffects) \ Range(coverEffects)
      toAdd == Range(coverEffects) \ Range(previousEffects)
      removed == RemoveEachLocally(previousEffects, st)
      added == AddEachLocally(coverEffects, removed)
  IN IF Range(coverEffects) = Range(previousEffects) THEN [st EXCEPT !.value = << >>]
     ELSE IF toRemove = {} /\ toAdd = {} THEN [st EXCEPT !.value = << >>]
     ELSE IF added.threw THEN [added EXCEPT !.value = << >>]
     ELSE [added EXCEPT !.refreshes = @ + 1, !.value = << >>]

\* refreshActorCoverEffect(actor), n times: actor.prepareData() and
\* queueSheetRefresh(actor).
RECURSIVE Refreshed(_, _)
Refreshed(n, q) ==
  IF n = 0 THEN q
  ELSE LET id == q.history.enqueued + 1
           h == [q.history EXCEPT !.enqueued = id]
       IN Refreshed(n - 1,
            IF q.task.pc = "idle" THEN ProcessQueue(Append(q.queue, id), h, sheet)
            ELSE [queue |-> Append(q.queue, id), task |-> q.task, history |-> h])

\* What a call leaves behind, and what it was given.
ActorCall(op, arg, r) ==
  /\ history.enqueued < MaxTasks
  /\ localEffects' = r.local
  /\ trackedDocumentIds' = r.tracked
  /\ prepared' = prepared + r.refreshes
  /\ SetQueue(Refreshed(r.refreshes, [queue |-> renderQueue, task |-> task, history |-> history]))
  /\ ret' = [op |-> op, arg |-> arg, threw |-> r.threw, value |-> r.value,
             before |-> [local |-> localEffects, prepared |-> prepared,
                         enqueued |-> history.enqueued]]
  /\ UNCHANGED <<catalogVars, orderVars, effects, effectVars, polygonVars, sheet, actorEffects,
                 pendingEffects, actorFlags, tokenFlags>>

AddToActorLocally(ce) ==
  /\ ce \in Range(coverObjectsMap)
  /\ ActorCall("addToActorLocally", <<ce>>,
               addToActorLocally(ce, Call(localEffects, trackedDocumentIds), TRUE))

RemoveFromActorLocally(ce) ==
  /\ ce \in Range(coverObjectsMap)
  /\ ActorCall("removeFromActorLocally", <<ce>>,
               removeFromActorLocally(ce, Call(localEffects, trackedDocumentIds), TRUE))

ReplaceLocalEffectsOnActor(coverEffects) ==
  ActorCall("replaceLocalEffectsOnActor", coverEffects,
            replaceLocalEffectsOnActor(coverEffects, coverObjectsMap,
                                       Call(localEffects, trackedDocumentIds)))

\* Sets of cover effects as the sequences in which a Set iterates them.
CoverEffectSets ==
  {s \in UNION {[1..n -> LocalEffectIds] : n \in 0..MaxLocalEffects} : IsInjective(s)}

InitLocal ==
  /\ coverObjectsMap \in {s \in [LocalEffectIds -> LocalEffectIds] : IsInjective(s)}
  /\ document = << >>
  /\ storedIds = {}
  /\ settingsInFlight = 0
  /\ coverTypesModified = FALSE
  /\ coverTypesOrdered = << >>
  /\ coverTypesUnordered = << >>
  /\ effects = << >>
  /\ InitActor
  /\ InitNoPolygon
  /\ flags = NoModuleFlags
  /\ sheet \in SheetStates
  /\ renderQueue = << >>
  /\ task = NoTask
  /\ history = NoHistory
  /\ ret = [op |-> "init"]

NextLocal ==
  \/ \E ce \in LocalEffectIds : AddToActorLocally(ce)
  \/ \E ce \in LocalEffectIds : RemoveFromActorLocally(ce)
  \/ \E coverEffects \in CoverEffectSets : ReplaceLocalEffectsOnActor(coverEffects)
  \/ SleepResolves
  \/ RenderResolves

SpecLocal == InitLocal /\ [][NextLocal]_vars

\* C27: replaceLocalEffectsOnActor(actor, E) removes and adds nothing and
\* asks for no refresh when E is the set of cover effects on the actor;
\* otherwise the cover effects on the actor are E after the call and the
\* actor was refreshed exactly once (one prepareData, one queued sheet
\* refresh).
C27_ReplaceMakesLocalEffectsEqual ==
  ret.op = "replaceLocalEffectsOnActor" =>
    IF Range(ret.arg) = ret.before.local
    THEN /\ localEffects = ret.before.local
         /\ prepared = ret.before.prepared
         /\ history.enqueued = ret.before.enqueued
    ELSE /\ localEffects = Range(ret.arg)
         /\ prepared = ret.before.prepared + 1
         /\ history.enqueued = ret.before.enqueued + 1

(***************************************************************************)
(* ActiveEffect: the preCreateActiveEffect hook                            *)
(*                                                                         *)
(* The hook only answers whether the pending effect may be created.  The   *)
(* creation is the host's and completes later (_onCreateDocuments awaits   *)
(* it): until then the effect is pending and not among actor.effects, and  *)
(* the hooks of other requests may run.                                    *)
(***************************************************************************)
MaxActorEffects == 4    \* active effects on the actor or pending
MaxCoverEffectIds == 2  \* cover-effect ids an active effect may carry

\* activeEffect.getFlag(MODULE_ID, FLAGS.COVER_EFFECT_ID): << >> is
\* undefined, <<i>> the id i (ids are non-empty strings).
CoverEffectIdFlags == {<< >>} \cup {<<i>> : i \in 1..MaxCoverEffectIds}

\* activeEffect.parent: the actor, or none.  The actor has an effects
\* collection.
Parents == {"actor", "none"}

\* preCreateActiveEffect(activeEffect): false prevents the creation.
preCreateActiveEffect(coverEffectId, parent, actorsEffects) ==
  IF coverEffectId = << >> THEN TRUE
  ELSE IF parent = "none" THEN TRUE
  ELSE ~\E i \in 1..Len(actorsEffects) : actorsEffects[i] = coverEffectId

\* The hook is called for a creation request; actor.effects is as it was
\* when it returns.
PreCreateActiveEffect(coverEffectId, parent) ==
  LET allowed == preCreateActiveEffect(coverEffectId, parent, actorEffects)
  IN /\ Len(actorEffects) + Len(pendingEffects) < MaxActorEffects
     /\ pendingEffects' =
          IF allowed
          THEN Append(pendingEffects, [flag |-> coverEffectId, parent |-> parent])
          ELSE pendingEffects
     /\ ret' = [op |-> "preCreateActiveEffect", flag |-> coverEffectId,
                parent |-> parent, value |-> allowed, before |-> actorEffects]
     /\ UNCHANGED <<catalogVars, orderVars, effects, effectVars, polygonVars, queueVars,
                    localEffects, trackedDocumentIds, prepared, actorEffects,
                    actorFlags, tokenFlags>>

\* _onCreateDocuments: the host has created the oldest pending effect; with
\* a parent actor it is the last of actor.effects.
OnCreateDocuments ==
  /\ pendingEffects # << >>
  /\ actorEffects' = IF Head(pendingEffects).parent = "actor"
                     THEN Append(actorEffects, Head(pendingEffects).flag)
                     ELSE actorEffects
  /\ pendingEffects' = Tail(pendingEffects)
  /\ ret' = [op |-> "_onCreateDocuments", flag |-> Head(pendingEffects).flag,
             parent |-> Head(pendingEffects).parent]
  /\ UNCHANGED <<catalogVars, orderVars, effects, effectVars, polygonVars, queueVars,
                 localEffects, trackedDocumentIds, prepared, actorFlags,
                 tokenFlags>>

InitCreate ==
  /\ coverObjectsMap = << >>
  /\ document = << >>
  /\ storedIds = {}
  /\ settingsInFlight = 0
  /\ coverTypesModified = FALSE
  /\ coverTypesOrdered = << >>
  /\ coverTypesUnordered = << >>
  /\ effects = << >>
  /\ InitExt
  /\ ret = [op |-> "init"]

NextCreate ==
  \/ \E coverEffectId \in CoverEffectIdFlags, parent \in Parents :
       PreCreateActiveEffect(coverEffectId, parent)
  \/ OnCreateDocuments

SpecCreate == InitCreate /\ [][NextCreate]_vars

\* The flag is among the cover-effect id flags of the effects in l.
OnActor(flag, l) == \E i \in 1..Len(l) : l[i] = flag

\* C28: with every creation passing through preCreateActiveEffect, no two
\* active effects of the actor ever carry the same cover-effect id; a
\* creation is rejected exactly when the new effect carries a cover-effect
\* id and has a parent actor that already holds an effect with that id, so
\* an effect without such an id or without a parent actor is never
\* rejected.
C28_NoDuplicateCoverEffectOnActor ==
  /\ \A i, j \in 1..Len(actorEffects) :
       (i # j /\ actorEffects[i] # << >>) => actorEffects[i] # actorEffects[j]
  /\ ret.op = "preCreateActiveEffect" =>
       (ret.value = FALSE <=>
          (ret.flag # << >> /\ ret.parent = "actor" /\ OnActor(ret.flag, ret.before)))

(***************************************************************************)
(* IgnoresCover: the accessors all, mwak, msak, rwak and rsak              *)
(*                                                                         *)
(* The object is taken with its fields token and actor in place, as the    *)
(* accessors expect them.  A flags object is a function from the five keys *)
(* to a value: << >> is undefined, <<n>> the number n.                     *)
(***************************************************************************)
MIN_COVER == 0
MAX_COVER == 3
COVER_TYPES_NONE == 0

\* FLAGS.COVER.IGNORE.ALL, MWAK, MSAK, RWAK, RSAK
IgnoreKeys == {"all", "mwak", "msak", "rwak", "rsak"}

IgnoreFlagValues == {<< >>} \cup {<<n>> : n \in MIN_COVER..MAX_COVER}

\* The values a caller assigns: the range and one step beyond either end.
AssignedValues == (MIN_COVER - 1)..(MAX_COVER + 1)

NoIgnoreFlags == [k \in IgnoreKeys |-> << >>]

\* Number.prototype.between(a, b), inclusive: the bounds are taken in either
\* order, the lesser as the minimum.
between(n, a, b) == Min(a, b) <= n /\ n <= Max(a, b)

verifyCoverValue(cover) == between(cover, MIN_COVER, MAX_COVER)

\* _getCoverFlag(flag): this.actor?.getFlag(MODULE_ID, flag) ?? COVER_TYPES.NONE
getCoverFlag(ofActor, flag) ==
  IF ofActor[flag] = << >> THEN COVER_TYPES_NONE ELSE ofActor[flag][1]

\* document.setFlag(MODULE_ID, key, value)
setFlag(ofDocument, key, value) == [ofDocument EXCEPT ![key] = value]

\* new IgnoresCover(token): this.token is read before it is assigned.
NewIgnoresCover ==
  /\ ret' = [op |-> "new", threw |-> TRUE]
  /\ UNCHANGED <<catalogVars, orderVars, effects, extVars>>

\* get all() ... get rsak()
GetIgnoresCover(key) ==
  /\ ret' = [op |-> "get", key |-> key, value |-> getCoverFlag(actorFlags, key)]
  /\ UNCHANGED <<catalogVars, orderVars, effects, extVars>>

\* set all(value) ... set rsak(value): this.token.setFlag(MODULE_ID, key),
\* without a value and on the token.
SetIgnoresCover(key, value) ==
  /\ tokenFlags' = IF verifyCoverValue(value) THEN setFlag(tokenFlags, key, << >>)
                   ELSE tokenFlags
  /\ ret' = [op |-> "set", key |-> key, value |-> value,
             warned |-> ~verifyCoverValue(value)]
  /\ UNCHANGED <<catalogVars, orderVars, effects, effectVars, polygonVars, queueVars,
                 localEffects, trackedDocumentIds, prepared, actorEffects,
                 pendingEffects, actorFlags>>

InitIgnores ==
  /\ coverObjectsMap = << >>
  /\ document = << >>
  /\ storedIds = {}
  /\ settingsInFlight = 0
  /\ coverTypesModified = FALSE
  /\ coverTypesOrdered = << >>
  /\ coverTypesUnordered = << >>
  /\ effects = << >>
  /\ flags = NoModuleFlags
  /\ sheet = "NONE"
  /\ renderQueue = << >>
  /\ task = NoTask
  /\ history = NoHistory
  /\ localEffects = {}
  /\ trackedDocumentIds = {}
  /\ prepared = 0
  /\ actorEffects = << >>
  /\ pendingEffects = << >>
  /\ actorFlags \in [IgnoreKeys -> IgnoreFlagValues]
  /\ tokenFlags = NoIgnoreFlags
  /\ InitNoPolygon
  /\ ret = [op |-> "init"]

NextIgnores ==
  \/ NewIgnoresCover
  \/ \E key \in IgnoreKeys : GetIgnoresCover(key)
  \/ \E key \in IgnoreKeys, value \in AssignedValues : SetIgnoresCover(key, value)

SpecIgnores == InitIgnores /\ [][NextIgnores]_vars

\* C30: assigning to one of the five properties a value v with
\* MIN_COVER <= v <= MAX_COVER makes the next read of that property return
\* v; assigning a value outside the range leaves the flags of the actor and
\* of the token, and so the value read, as they were.
C30_AssignedValueIsRead ==
  [][ret'.op = "set" =>
       IF MIN_COVER <= ret'.value /\ ret'.value <= MAX_COVER
       THEN getCoverFlag(actorFlags', ret'.key) = ret'.value
       ELSE /\ actorFlags' = actorFlags
            /\ tokenFlags' = tokenFlags
            /\ getCoverFlag(actorFlags', ret'.key) = getCoverFlag(actorFlags, ret'.key)]_vars
====
